---------------------------- MODULE Spec2Model ----------------------------
(***************************************************************************)
(* Model of src/src/rasp_or_tools.py (the CP-SAT timetable builder) and of *)
(* the InputData container of src/src/input_data.py.                       *)
(*                                                                         *)
(* One run of build_and_solve_with_or_tools is a state machine:            *)
(*   start --Validate--> validated | raised                                *)
(*   validated --Build--> built --Solve*--> solved --Report--> done        *)
(* data is the InputData value handed to the run.  Values are typed as the *)
(* dataclass annotates them (periods, grades, hours, subgroup ids are      *)
(* integers, names are strings), so the isinstance tests of the validator  *)
(* pass and are not modelled.                                              *)
(*                                                                         *)
(* CP-SAT itself is an external backend: Solve returns any assignment of   *)
(* the model's variables that satisfies every constraint the builder       *)
(* emitted (or INFEASIBLE when there is none).                             *)
(***************************************************************************)
EXTENDS Integers, Sequences, FiniteSets, TLC

VARIABLES
    data,        \* the InputData passed to build_and_solve_with_or_tools
    pc,          \* position of the run
    outcome,     \* how _validate_input_data ended: "none", "returned", "ValueError", "NameError"
    raised,      \* the exception that ended the run, "none" while there is none
    errors,      \* the validator's list `errors` when it ended
    cons,        \* the constraints added to the CpModel, in emission order
    status,      \* the status returned by solver.Solve
    sched,       \* the variables with value 1 in the solver's answer
    solveCalls,  \* number of solver.Solve invocations of this run
    exported,    \* statistics were computed and the timetable was exported
    hashOrder,   \* the order in which this interpreter process iterates a set of
                 \* strings (str hashes are randomised per process)
    weights,     \* the OptimizationWeights() object of the run (line 508)
    ilp,         \* a call of ilp_minimize_ge of min.py: its arguments and, in a
                 \* tuple that is empty until the call returns, the dict it returns
    daily        \* the occupancy patterns of one entity on one day that are
                 \* feasible, and the ones each compactness objective selects

vars == <<data, pc, outcome, raised, errors, cons, status, sched, solveCalls, exported,
          hashOrder, weights, ilp, daily, daily>>

-----------------------------------------------------------------------------
(* Generic helpers: Python lists are sequences, dicts are functions.       *)

SeqToSet(s) == {s[i] : i \in 1..Len(s)}

RECURSIVE SetToSeq(_)
\* the order in which a dict or a set is traversed
SetToSeq(S) ==
    IF S = {} THEN <<>>
    ELSE LET e == CHOOSE e \in S : TRUE IN <<e>> \o SetToSeq(S \ {e})

\* the iteration orders of a set told apart here: an order and its reverse
HashOrders == {"fwd", "rev"}

\* for v in <a Python set>: the order depends on the process
IterSet(S) ==
    LET seq == SetToSeq(S)
    IN IF hashOrder = "fwd" THEN seq ELSE [i \in 1..Len(seq) |-> seq[Len(seq) + 1 - i]]

RECURSIVE Flatten(_)
Flatten(ss) == IF ss = <<>> THEN <<>> ELSE Head(ss) \o Flatten(Tail(ss))

\* for v in seq: <body appending the messages F(v)>
ForEach(seq, F(_)) == Flatten([i \in 1..Len(seq) |-> F(seq[i])])

RECURSIVE SumSeq(_)
SumSeq(s) == IF s = <<>> THEN 0 ELSE Head(s) + SumSeq(Tail(s))

\* sum(F(k) for k in S)
SumOver(S, F(_)) == LET seq == SetToSeq(S) IN SumSeq([i \in 1..Len(seq) |-> F(seq[i])])

Max2(a, b) == IF a >= b THEN a ELSE b
Min2(a, b) == IF a <= b THEN a ELSE b

\* max(values, default=dflt)
MaxOf(S, dflt) == IF S = {} THEN dflt ELSE CHOOSE m \in S : \A v \in S : v <= m

\* dict.get(k, dflt)
Get(f, k, dflt) == IF k \in DOMAIN f THEN f[k] ELSE dflt

\* [] / {} : the empty list and the empty dict
Empty == <<>>

\* one message iff the condition holds
Msg(cond, m) == IF cond THEN <<m>> ELSE <<>>

\* lexicographic order of the subject names that occur in the inputs below
NameOrder == <<"art", "cs", "eng", "math">>
NameRank(s) == CHOOSE i \in 1..Len(NameOrder) : NameOrder[i] = s
\* tuple(sorted(pair))
SortedPair(p) == IF NameRank(p[1]) <= NameRank(p[2]) THEN p ELSE <<p[2], p[1]>>

-----------------------------------------------------------------------------
(* _validate_input_data: local helpers and base sets (lines 104-128)       *)

\* dups(seq): the values that occur more than once (returned sorted)
dups(seq) == {seq[j] : j \in {k \in 1..Len(seq) : \E i \in 1..(k - 1) : seq[i] = seq[k]}}

class_names(d) == [i \in 1..Len(d.classes) |-> d.classes[i].name]
class_set(d) == SeqToSet(class_names(d))
\* {c.name: c.grade for c in classes}: the last class of a name decides
class_grade(d) ==
    [n \in class_set(d) |->
        LET last == CHOOSE i \in 1..Len(d.classes) :
                        /\ d.classes[i].name = n
                        /\ \A j \in (i + 1)..Len(d.classes) : d.classes[j].name # n
        IN d.classes[last].grade]
subject_set(d) == SeqToSet(d.subjects)
teacher_set(d) == SeqToSet(d.teachers)
day_set(d) == SeqToSet(d.days)
period_set(d) == SeqToSet(d.periods)
GSet(d) == SeqToSet(d.subgroup_ids)

-----------------------------------------------------------------------------
(* _validate_input_data, check by check.  A message is the tuple of its    *)
(* template and the values formatted into it; every check yields its       *)
(* messages in the order add_err is called.                                *)

\* 1) basic structure / uniqueness
V_days(d) ==
    IF d.days = <<>> THEN << <<"days_empty">> >>
    ELSE Msg(dups(d.days) # {}, <<"days_dups", dups(d.days)>>)

V_periods(d) ==
    IF d.periods = <<>> THEN << <<"periods_empty">> >>
    ELSE   Msg(\E i \in 1..(Len(d.periods) - 1) : d.periods[i] > d.periods[i + 1],
               <<"periods_not_sorted">>)
        \o Msg(dups(d.periods) # {}, <<"periods_dups", dups(d.periods)>>)
        \o Msg(\E i \in 1..Len(d.periods) : d.periods[i] < 1, <<"periods_min">>)

V_classes(d) ==
    IF d.classes = <<>> THEN << <<"classes_empty">> >>
    ELSE   Msg(\E i \in 1..Len(d.classes) : d.classes[i].name = "", <<"classes_name">>)
        \o Msg(dups(class_names(d)) # {}, <<"classes_dups", dups(class_names(d))>>)
        \o Msg(\E i \in 1..Len(d.classes) : d.classes[i].grade < 1, <<"classes_grade">>)

V_subjects(d) ==
    IF d.subjects = <<>> THEN << <<"subjects_empty">> >>
    ELSE Msg(dups(d.subjects) # {}, <<"subjects_dups", dups(d.subjects)>>)

V_teachers(d) ==
    IF d.teachers = <<>> THEN << <<"teachers_empty">> >>
    ELSE Msg(dups(d.teachers) # {}, <<"teachers_dups", dups(d.teachers)>>)

V_english_name(d) ==
    Msg(d.english_subject_name # "" /\ d.english_subject_name \notin subject_set(d),
        <<"english_subject_name_unknown", d.english_subject_name>>)

V_split(d) ==
       Msg(~(d.split_subjects \subseteq subject_set(d)),
           <<"split_subjects_unknown", d.split_subjects \ subject_set(d)>>)
    \o (IF d.subgroup_ids = <<>> THEN << <<"subgroup_ids_empty">> >>
        ELSE Msg(dups(d.subgroup_ids) # {}, <<"subgroup_ids_dups", dups(d.subgroup_ids)>>))

\* 2) plans and teacher assignments
V_plan_hours(d) ==
    ForEach(SetToSeq(DOMAIN d.plan_hours), LAMBDA k :
           Msg(k[1] \notin class_set(d), <<"plan_hours_class", k[1]>>)
        \o Msg(k[2] \notin subject_set(d), <<"plan_hours_subject", k[2]>>)
        \o Msg(k[2] \in d.split_subjects, <<"plan_hours_split", k[2]>>)
        \o Msg(d.plan_hours[k] < 0, <<"plan_hours_negative", k>>))

V_subgroup_plan_hours(d) ==
    ForEach(SetToSeq(DOMAIN d.subgroup_plan_hours), LAMBDA k :
           Msg(k[1] \notin class_set(d), <<"subgroup_plan_hours_class", k[1]>>)
        \o Msg(k[2] \notin subject_set(d), <<"subgroup_plan_hours_subject", k[2]>>)
        \o Msg(k[2] \notin d.split_subjects, <<"subgroup_plan_hours_not_split", k[2]>>)
        \o Msg(k[3] \notin GSet(d), <<"subgroup_plan_hours_subgroup", k[3], <<k[1], k[2]>> >>)
        \o Msg(d.subgroup_plan_hours[k] < 0, <<"subgroup_plan_hours_negative", k>>))

V_assigned_teacher(d) ==
    ForEach(SetToSeq(DOMAIN d.assigned_teacher), LAMBDA k :
           Msg(k[1] \notin class_set(d) \/ k[2] \notin subject_set(d),
               <<"assigned_teacher_pair", k>>)
        \o Msg(k[2] \in d.split_subjects, <<"assigned_teacher_split", k[2]>>)
        \o Msg(d.assigned_teacher[k] \notin teacher_set(d),
               <<"assigned_teacher_teacher", d.assigned_teacher[k], k>>)
        \o Msg(Get(d.plan_hours, k, 0) > 0 /\ k \notin DOMAIN d.plan_hours,
               <<"assigned_teacher_no_hours", k>>))

V_subgroup_assigned_teacher(d) ==
    ForEach(SetToSeq(DOMAIN d.subgroup_assigned_teacher), LAMBDA k :
           Msg(k[1] \notin class_set(d) \/ k[2] \notin subject_set(d) \/ k[3] \notin GSet(d),
               <<"subgroup_assigned_teacher_key", k>>)
        \o Msg(k[2] \notin d.split_subjects, <<"subgroup_assigned_teacher_not_split", k[2]>>)
        \o Msg(d.subgroup_assigned_teacher[k] \notin teacher_set(d),
               <<"subgroup_assigned_teacher_teacher", d.subgroup_assigned_teacher[k], k>>)
        \o Msg(Get(d.subgroup_plan_hours, k, 0) > 0 /\ k \notin DOMAIN d.subgroup_plan_hours,
               <<"subgroup_assigned_teacher_no_hours", k>>))

V_teacher_present(d) ==
       ForEach(SetToSeq(DOMAIN d.plan_hours), LAMBDA k :
           Msg(d.plan_hours[k] > 0 /\ k \notin DOMAIN d.assigned_teacher,
               <<"no_assigned_teacher", k, d.plan_hours[k]>>))
    \o ForEach(SetToSeq(DOMAIN d.subgroup_plan_hours), LAMBDA k :
           Msg(d.subgroup_plan_hours[k] > 0 /\ k \notin DOMAIN d.subgroup_assigned_teacher,
               <<"no_subgroup_assigned_teacher", k, d.subgroup_plan_hours[k]>>))

\* 3) restrictions / policies
V_days_off(d) ==
    ForEach(SetToSeq(DOMAIN d.days_off), LAMBDA t :
           Msg(t \notin teacher_set(d), <<"days_off_teacher", t>>)
        \o ForEach(IterSet(d.days_off[t]), LAMBDA dd :
               Msg(dd \notin day_set(d), <<"days_off_day", t, dd>>)))

V_teacher_forbidden_slots(d) ==
    ForEach(SetToSeq(DOMAIN d.teacher_forbidden_slots), LAMBDA t :
        LET slots == d.teacher_forbidden_slots[t] IN
           Msg(t \notin teacher_set(d), <<"teacher_forbidden_slots_teacher", t>>)
        \o ForEach([i \in 1..Len(slots) |-> i], LAMBDA i :
                  Msg(slots[i][1] \notin day_set(d),
                      <<"teacher_forbidden_slots_day", t, slots[i][1]>>)
               \o Msg(slots[i][2] \notin period_set(d),
                      <<"teacher_forbidden_slots_period", t, slots[i][2]>>)
               \o Msg(\E j \in 1..(i - 1) : slots[j] = slots[i],
                      <<"teacher_forbidden_slots_dup", t, slots[i]>>)))

V_forbidden_slots(d) ==
    ForEach(IterSet(d.forbidden_slots), LAMBDA k :
           Msg(k[1] \notin class_set(d), <<"forbidden_slots_class", k[1]>>)
        \o Msg(k[2] \notin day_set(d), <<"forbidden_slots_day", k[1], k[2]>>)
        \o Msg(k[3] \notin period_set(d), <<"forbidden_slots_period", k[1], k[3]>>))

V_grade_max_lessons_per_day(d) ==
    ForEach(SetToSeq(DOMAIN d.grade_max_lessons_per_day), LAMBDA g :
           Msg(g < 1, <<"grade_max_lessons_per_day_grade", g>>)
        \o Msg(d.grade_max_lessons_per_day[g] < 0, <<"grade_max_lessons_per_day_limit", g>>))

V_subjects_not_last_lesson(d) ==
    ForEach(SetToSeq(DOMAIN d.subjects_not_last_lesson), LAMBDA g :
           Msg(g < 1, <<"subjects_not_last_lesson_grade", g>>)
        \o ForEach(IterSet(d.subjects_not_last_lesson[g]), LAMBDA s :
               Msg(s \notin subject_set(d), <<"subjects_not_last_lesson_subject", g, s>>)))

V_elementary_english_periods(d) ==
    Msg(d.elementary_english_periods # {}
            /\ ~(d.elementary_english_periods \subseteq period_set(d)),
        <<"elementary_english_periods_unknown", d.elementary_english_periods \ period_set(d)>>)

V_grade_subject_max_consecutive_days(d) ==
    ForEach(SetToSeq(DOMAIN d.grade_subject_max_consecutive_days), LAMBDA g :
        LET mp == d.grade_subject_max_consecutive_days[g] IN
           Msg(g < 1, <<"grade_subject_max_consecutive_days_grade", g>>)
        \o ForEach(SetToSeq(DOMAIN mp), LAMBDA s :
                  Msg(s \notin subject_set(d),
                      <<"grade_subject_max_consecutive_days_subject", g, s>>)
               \o Msg(mp[s] < 1, <<"grade_subject_max_consecutive_days_limit", g, s>>)))

V_class_slot_weight(d) ==
    ForEach(SetToSeq(DOMAIN d.class_slot_weight), LAMBDA k :
        Msg(k[1] \notin class_set(d) \/ k[2] \notin day_set(d) \/ k[3] \notin period_set(d),
            <<"class_slot_weight_key", k>>))

V_teacher_slot_weight(d) ==
    ForEach(SetToSeq(DOMAIN d.teacher_slot_weight), LAMBDA k :
        Msg(k[1] \notin teacher_set(d) \/ k[2] \notin day_set(d) \/ k[3] \notin period_set(d),
            <<"teacher_slot_weight_key", k>>))

V_class_subject_day_weight(d) ==
    ForEach(SetToSeq(DOMAIN d.class_subject_day_weight), LAMBDA k :
        Msg(k[1] \notin class_set(d) \/ k[2] \notin subject_set(d) \/ k[3] \notin day_set(d),
            <<"class_subject_day_weight_key", k>>))

V_paired_subjects(d) ==
    ForEach(IterSet(d.paired_subjects), LAMBDA s :
        Msg(s \notin subject_set(d), <<"paired_subjects_unknown", s>>))

V_compatible_pairs(d) ==
    ForEach(IterSet(d.compatible_pairs), LAMBDA pair :
           Msg(pair[1] \notin d.split_subjects \/ pair[2] \notin d.split_subjects,
               <<"compatible_pairs_not_split", pair>>)
        \o Msg(SortedPair(pair) # pair, <<"compatible_pairs_unsorted", pair>>))

\* 4) must_sync for split subjects
\* dict.get(key) without default: None
None == "None"

V_must_sync_subset(d) ==
    Msg(~(d.must_sync_split_subjects \subseteq d.split_subjects),
        <<"must_sync_not_split", d.must_sync_split_subjects \ d.split_subjects>>)

\* hours = [subgroup_plan_hours.get((c, s, g), 0) for g in G]
must_sync_hours(d, c, s) ==
    [i \in 1..Len(d.subgroup_ids) |-> Get(d.subgroup_plan_hours, <<c, s, d.subgroup_ids[i]>>, 0)]

\* t_by_g = [subgroup_assigned_teacher.get((c, s, g)) for g in G]
must_sync_t_by_g(d, c, s) ==
    [i \in 1..Len(d.subgroup_ids) |->
        Get(d.subgroup_assigned_teacher, <<c, s, d.subgroup_ids[i]>>, None)]

\* ts: the teachers of the active subgroups (hours > 0), None dropped
must_sync_ts(d, c, s) ==
    LET hours == must_sync_hours(d, c, s)
        t_by_g == must_sync_t_by_g(d, c, s)
        idx == SelectSeq([i \in 1..Len(d.subgroup_ids) |-> i],
                         LAMBDA i : hours[i] > 0 /\ t_by_g[i] # None)
    IN [j \in 1..Len(idx) |-> t_by_g[idx[j]]]

V_must_sync(d) ==
    ForEach(IterSet(d.must_sync_split_subjects), LAMBDA s :
        ForEach(IterSet(class_set(d)), LAMBDA c :
            LET hours == must_sync_hours(d, c, s)
                ts == must_sync_ts(d, c, s)
                uniq_teachers == SeqToSet(ts)
            IN IF \E i \in 1..Len(hours) : hours[i] > 0
               THEN    Msg(Cardinality(SeqToSet(hours)) # 1, <<"must_sync_hours", c, s, hours>>)
                    \o Msg(Len(ts) # Cardinality(SeqToSet(ts)),
                           <<"must_sync_same_teacher", c, s, ts>>)
                    \o Msg(Cardinality(uniq_teachers) = 1 /\ SumSeq(hours) > 0,
                           <<"must_sync_one_teacher", s, c, uniq_teachers>>)
               ELSE <<>>))

\* 5a) weekly capacity of the teachers
teacher_load(d, t) ==
      SumOver({k \in DOMAIN d.plan_hours :
                  d.plan_hours[k] > 0 /\ Get(d.assigned_teacher, k, None) = t},
              LAMBDA k : d.plan_hours[k])
    + SumOver({k \in DOMAIN d.subgroup_plan_hours :
                  d.subgroup_plan_hours[k] > 0 /\ Get(d.subgroup_assigned_teacher, k, None) = t},
              LAMBDA k : d.subgroup_plan_hours[k])

\* t_forb[t]
t_forb(d, t) == SeqToSet(Get(d.teacher_forbidden_slots, t, <<>>))

teacher_weekly_capacity(d, t) ==
    SumSeq([i \in 1..Len(d.days) |->
        IF d.days[i] \in Get(d.days_off, t, {}) THEN 0
        ELSE LET forb_count == Cardinality({j \in 1..Len(d.periods) :
                                   <<d.days[i], d.periods[j]>> \in t_forb(d, t)})
             IN Max2(0, Len(d.periods) - forb_count)])

V_teacher_capacity(d) ==
    ForEach(IterSet(teacher_set(d)), LAMBDA t :
        Msg(teacher_load(d, t) > teacher_weekly_capacity(d, t),
            <<"teacher_capacity", t, teacher_load(d, t), teacher_weekly_capacity(d, t)>>))

\* 5b) weekly capacity of the classes
non_split_hours(d, c) ==
    SumOver({k \in DOMAIN d.plan_hours : k[1] = c}, LAMBDA k : d.plan_hours[k])

\* by_group: subgroup id -> sum of the class's subgroup hours (only ids that occur)
by_group(d, c) ==
    [g \in {k[3] : k \in {kk \in DOMAIN d.subgroup_plan_hours : kk[1] = c}} |->
        SumOver({k \in DOMAIN d.subgroup_plan_hours : k[1] = c /\ k[3] = g},
                LAMBDA k : d.subgroup_plan_hours[k])]

split_lb(d, c) == MaxOf({by_group(d, c)[g] : g \in DOMAIN by_group(d, c)}, 0)

\* forb_by_cd[(c, d)]: the number of entries of forbidden_slots for (c, d)
forb_by_cd(d, c, day) == Cardinality({k \in d.forbidden_slots : k[1] = c /\ k[2] = day})

per_day_limit(d, c) == Get(d.grade_max_lessons_per_day, class_grade(d)[c], Len(d.periods))

class_weekly_capacity(d, c) ==
    SumSeq([i \in 1..Len(d.days) |->
        LET day_free == Max2(0, Len(d.periods) - forb_by_cd(d, c, d.days[i]))
        IN Min2(per_day_limit(d, c), day_free)])

V_class_capacity(d) ==
    ForEach(IterSet(class_set(d)), LAMBDA c :
        LET required_slots_min == non_split_hours(d, c) + split_lb(d, c) IN
        Msg(required_slots_min > class_weekly_capacity(d, c),
            <<"class_capacity", c, required_slots_min, non_split_hours(d, c),
              split_lb(d, c), class_weekly_capacity(d, c)>>))

\* 5c) English in the elementary school
req_eng(d, c) ==
    IF d.english_subject_name \in d.split_subjects
    THEN MaxOf({Get(d.subgroup_plan_hours, <<c, d.english_subject_name, g>>, 0) : g \in GSet(d)}, 0)
    ELSE Get(d.plan_hours, <<c, d.english_subject_name>>, 0)

eng_cap(d, c) ==
    SumSeq([i \in 1..Len(d.days) |->
        LET forb_p == {p \in period_set(d) : <<c, d.days[i], p>> \in d.forbidden_slots}
        IN Cardinality({p \in d.elementary_english_periods :
                            p \in period_set(d) /\ p \notin forb_p})])

V_english_capacity(d) ==
    IF /\ d.english_subject_name # ""
       /\ d.english_subject_name \in subject_set(d)
       /\ d.elementary_english_periods # {}
    THEN ForEach(IterSet(class_set(d)), LAMBDA c :
            Msg(class_grade(d)[c] \in {2, 3, 4} /\ req_eng(d, c) > eng_cap(d, c),
                <<"english_capacity", c, class_grade(d)[c], req_eng(d, c), eng_cap(d, c),
                  d.elementary_english_periods>>))
    ELSE <<>>

-----------------------------------------------------------------------------
(* The validator as a whole.  class_set and class_grade are assigned only  *)
(* in the else branch of `if not classes` (lines 158-159); with an empty   *)
(* class list the first statement that reads one of them raises            *)
(* UnboundLocalError (a NameError) and the collected messages are lost.    *)

Sec(msgs, reads) == [msgs |-> msgs, reads |-> reads]

\* the checks in source order; reads: the check evaluates class_set / class_grade
Sections(d) == <<
    Sec(V_days(d), FALSE),
    Sec(V_periods(d), FALSE),
    Sec(V_classes(d), FALSE),
    Sec(V_subjects(d), FALSE),
    Sec(V_teachers(d), FALSE),
    Sec(V_english_name(d), FALSE),
    Sec(V_split(d), FALSE),
    Sec(V_plan_hours(d), DOMAIN d.plan_hours # {}),
    Sec(V_subgroup_plan_hours(d), DOMAIN d.subgroup_plan_hours # {}),
    Sec(V_assigned_teacher(d), DOMAIN d.assigned_teacher # {}),
    Sec(V_subgroup_assigned_teacher(d), DOMAIN d.subgroup_assigned_teacher # {}),
    Sec(V_teacher_present(d), FALSE),
    Sec(V_days_off(d), FALSE),
    Sec(V_teacher_forbidden_slots(d), FALSE),
    Sec(V_forbidden_slots(d), d.forbidden_slots # {}),
    Sec(V_grade_max_lessons_per_day(d), FALSE),
    Sec(V_subjects_not_last_lesson(d), FALSE),
    Sec(V_elementary_english_periods(d), FALSE),
    Sec(V_grade_subject_max_consecutive_days(d), FALSE),
    Sec(V_class_slot_weight(d), DOMAIN d.class_slot_weight # {}),
    Sec(V_teacher_slot_weight(d), FALSE),
    Sec(V_class_subject_day_weight(d), DOMAIN d.class_subject_day_weight # {}),
    Sec(V_paired_subjects(d), FALSE),
    Sec(V_compatible_pairs(d), FALSE),
    Sec(V_must_sync_subset(d), FALSE),
    Sec(V_must_sync(d), d.must_sync_split_subjects # {}),
    Sec(V_teacher_capacity(d), FALSE),
    Sec(V_class_capacity(d), TRUE),
    Sec(V_english_capacity(d),
        /\ d.english_subject_name # ""
        /\ d.english_subject_name \in subject_set(d)
        /\ d.elementary_english_periods # {}) >>

\* class_set / class_grade are bound iff the else branch at line 150 ran
ClassSetBound(d) == d.classes # <<>>

\* index of the check that raises NameError, 0 when the validator runs to its end
CrashAt(d, secs) ==
    IF ClassSetBound(d) THEN 0
    ELSE CHOOSE i \in 1..Len(secs) :
            /\ secs[i].reads
            /\ \A j \in 1..(i - 1) : ~secs[j].reads

\* the list `errors` when the validator ends
CollectedErrors(d, secs) ==
    LET n == IF CrashAt(d, secs) = 0 THEN Len(secs) ELSE CrashAt(d, secs) - 1
    IN Flatten([i \in 1..n |-> secs[i].msgs])

\* how _validate_input_data ends (lines 476-477)
ValidateOutcome(d, secs) ==
    IF CrashAt(d, secs) # 0 THEN "NameError"
    ELSE IF CollectedErrors(d, secs) # <<>> THEN "ValueError"
    ELSE "returned"

validate_input_data(d) ==
    LET secs == Sections(d)
    IN [outcome |-> ValidateOutcome(d, secs), errors |-> CollectedErrors(d, secs)]

-----------------------------------------------------------------------------
(* build_and_solve_with_or_tools: the variables of the CpModel (3.1)       *)

C(d) == class_set(d)
S(d) == subject_set(d)
D(d) == day_set(d)
P(d) == period_set(d)
G(d) == GSet(d)
splitS(d) == d.split_subjects
class_grades(d) == class_grade(d)

xv(c, s, day, p) == <<"x", c, s, day, p>>
zv(c, s, g, day, p) == <<"z", c, s, g, day, p>>
yv(c, day, p) == <<"y", c, day, p>>
is_subj_taught(c, s, day, p) == <<"ist", c, s, day, p>>
has_split(c, day, p) == <<"has_split", c, day, p>>
teacher_busy(t, day, p) == <<"tbusy", t, day, p>>
false_var == <<"false_var">>
day_is_last_lesson(c, day, p) == <<"is_last", c, day, p>>
no_lessons_after(c, day, p) == <<"no_lessons_after", c, day, p>>
day_flag(subj, c, day) == <<"day_flag", subj, c, day>>
\* pref_c_/pref_t_, suff_c_/suff_t_, inside_c_/inside_t_ (kind "c": a class,
\* kind "t": a teacher) and lonely_ of a plan item (lines 892-916, 937-959, 1004, 1017)
prefix(kind, e, day, p) == <<"pref", kind, e, day, p>>
suffix(kind, e, day, p) == <<"suff", kind, e, day, p>>
inside(kind, e, day, p) == <<"inside", kind, e, day, p>>
lonely(item, day, p) == <<"lonely", item, day, p>>

\* the (class, subject) keys that get x variables (lines 517-519)
x_keys(d) == {k \in DOMAIN d.plan_hours :
                k[1] \in C(d) /\ k[2] \in S(d) /\ k[2] \notin splitS(d)}
\* the (class, subject, subgroup) keys that get z variables (lines 522-524)
z_keys(d) == {k \in DOMAIN d.subgroup_plan_hours :
                k[1] \in C(d) /\ k[2] \in S(d) /\ k[3] \in G(d) /\ k[2] \in splitS(d)}

Slots(d) == D(d) \X P(d)

x_vars(d) == {xv(k[1], k[2], sl[1], sl[2]) : k \in x_keys(d), sl \in Slots(d)}
z_vars(d) == {zv(k[1], k[2], k[3], sl[1], sl[2]) : k \in z_keys(d), sl \in Slots(d)}

\* _class_lessons_in_slot(c, d, p) (lines 550-553)
non_split_vars(d, c, day, p) == {xv(k[1], k[2], day, p) : k \in {kk \in x_keys(d) : kk[1] = c}}
all_split_vars_in_slot(d, c, day, p) ==
    {zv(k[1], k[2], k[3], day, p) : k \in {kk \in z_keys(d) : kk[1] = c}}
class_lessons_in_slot(d, c, day, p) ==
    non_split_vars(d, c, day, p) \cup all_split_vars_in_slot(d, c, day, p)

\* the assignment keys the loops at lines 559-564 visit
x_teacher_keys(d) == {k \in DOMAIN d.assigned_teacher :
                        k[1] \in C(d) /\ k[2] \in S(d) /\ k[2] \notin splitS(d)}
z_teacher_keys(d) == {k \in DOMAIN d.subgroup_assigned_teacher :
                        k[1] \in C(d) /\ k[2] \in splitS(d) /\ k[3] \in G(d)}

\* teacher_lessons_in_slot[t, d, p] (lines 556-564)
teacher_lessons_in_slot(d, t, day, p) ==
         {xv(k[1], k[2], day, p) : k \in {kk \in x_teacher_keys(d) : d.assigned_teacher[kk] = t}}
    \cup {zv(k[1], k[2], k[3], day, p) :
             k \in {kk \in z_teacher_keys(d) : d.subgroup_assigned_teacher[kk] = t}}

\* a dictionary lookup of the builder fails (KeyError): x[...] / z[...] of a key
\* without variables, or teacher_lessons_in_slot[...] of an unknown teacher
BuildKeyError(d) ==
    /\ Slots(d) # {}
    /\ \/ \E k \in x_teacher_keys(d) : k \notin x_keys(d) \/ d.assigned_teacher[k] \notin teacher_set(d)
       \/ \E k \in z_teacher_keys(d) :
              k \notin z_keys(d) \/ d.subgroup_assigned_teacher[k] \notin teacher_set(d)
       \/ \E k \in DOMAIN d.plan_hours : k \notin x_keys(d)
       \/ \E k \in DOMAIN d.subgroup_plan_hours : k \notin z_keys(d)

-----------------------------------------------------------------------------
(* The constraints the builder adds to the CpModel.  A constraint is a     *)
(* record: op names the CP-SAT call, target/vs its variables, rhs its      *)
(* constant.                                                               *)
(*   MaxEq     AddMaxEquality(target, vs)      target = OR(vs)             *)
(*   Eq0       Add(target == 0)                                            *)
(*   Eq1       Add(target == 1)                                            *)
(*   SumEq     Add(sum(vs) == rhs)                                         *)
(*   SumLe     Add(sum(vs) <= rhs)                                         *)
(*   AtMostOne AddAtMostOne(vs)                                            *)
(*   NotAll    AddBoolOr([v.Not() for v in vs])                            *)
(*   Equal     Add(a == b), vs = {a, b}                                    *)
(*   IfNotAll  AddBoolOr([v.Not() for v in vs]).OnlyEnforceIf(target)      *)
(*   IfNotAny  AddBoolOr(vs).OnlyEnforceIf(target.Not())                   *)
(*   IfAll     AddBoolAnd(vs).OnlyEnforceIf(target) / AddImplication       *)
(*   IfNone    AddImplication(target, v.Not()), vs = {v}                   *)

Con(op, target, vs, rhs) == [op |-> op, target |-> target, vs |-> vs, rhs |-> rhs]

\* `if lessons: AddMaxEquality(v, lessons) else: Add(v == 0)`
OrDef(v, lessons) ==
    IF lessons # {} THEN Con("MaxEq", v, lessons, 0) ELSE Con("Eq0", v, {}, 0)

\* lines 539-540
FalseVarCons(d) == << Con("Eq0", false_var, {}, 0) >>

\* teacher_busy == OR(lessons) (lines 567-575)
TeacherBusyCons(d) ==
    ForEach(SetToSeq(teacher_set(d) \X Slots(d)), LAMBDA k :
        << OrDef(teacher_busy(k[1], k[2][1], k[2][2]),
                 teacher_lessons_in_slot(d, k[1], k[2][1], k[2][2])) >>)

\* a builder that derives y from the whole-class lessons only
OccupancyCons_x_only(d) ==
    ForEach(SetToSeq(C(d) \X Slots(d)), LAMBDA k :
        << OrDef(yv(k[1], k[2][1], k[2][2]),
                 non_split_vars(d, k[1], k[2][1], k[2][2])) >>)

\* (1) y == OR(x, z) in the slot (lines 581-586)
OccupancyCons(d) ==
    ForEach(SetToSeq(C(d) \X Slots(d)), LAMBDA k :
        << OrDef(yv(k[1], k[2][1], k[2][2]),
                 class_lessons_in_slot(d, k[1], k[2][1], k[2][2])) >>)

\* a builder that treats the weekly plan as an upper bound only
PlanCons_upper_bound(d) ==
       ForEach(SetToSeq(DOMAIN d.plan_hours), LAMBDA k :
           << Con("SumLe", false_var,
                  {xv(k[1], k[2], sl[1], sl[2]) : sl \in Slots(d)}, d.plan_hours[k]) >>)
    \o ForEach(SetToSeq(DOMAIN d.subgroup_plan_hours), LAMBDA k :
           << Con("SumLe", false_var,
                  {zv(k[1], k[2], k[3], sl[1], sl[2]) : sl \in Slots(d)},
                  d.subgroup_plan_hours[k]) >>)

\* (2) weekly plans (lines 589-592)
PlanCons(d) ==
       ForEach(SetToSeq(DOMAIN d.plan_hours), LAMBDA k :
           << Con("SumEq", false_var,
                  {xv(k[1], k[2], sl[1], sl[2]) : sl \in Slots(d)}, d.plan_hours[k]) >>)
    \o ForEach(SetToSeq(DOMAIN d.subgroup_plan_hours), LAMBDA k :
           << Con("SumEq", false_var,
                  {zv(k[1], k[2], k[3], sl[1], sl[2]) : sl \in Slots(d)},
                  d.subgroup_plan_hours[k]) >>)

\* a builder that caps the daily repetitions of the whole-class lessons only
TwoHourCons_x_only(d) ==
    ForEach(SetToSeq({k \in DOMAIN d.plan_hours :
                         d.plan_hours[k] = 2 /\ k[2] \notin d.paired_subjects}), LAMBDA k :
        ForEach(SetToSeq(D(d)), LAMBDA day :
            << Con("SumLe", false_var, {xv(k[1], k[2], day, p) : p \in P(d)}, 1) >>))

\* (2a) two-hour subjects outside paired_subjects: once a day (lines 595-604)
TwoHourCons(d) ==
       ForEach(SetToSeq({k \in DOMAIN d.plan_hours :
                            d.plan_hours[k] = 2 /\ k[2] \notin d.paired_subjects}), LAMBDA k :
           ForEach(SetToSeq(D(d)), LAMBDA day :
               << Con("SumLe", false_var, {xv(k[1], k[2], day, p) : p \in P(d)}, 1) >>))
    \o ForEach(SetToSeq({k \in DOMAIN d.subgroup_plan_hours :
                            d.subgroup_plan_hours[k] = 2 /\ k[2] \notin d.paired_subjects}),
               LAMBDA k :
           ForEach(SetToSeq(D(d)), LAMBDA day :
               << Con("SumLe", false_var, {zv(k[1], k[2], k[3], day, p) : p \in P(d)}, 1) >>))

\* a builder that limits only the whole-class lessons of a teacher in a slot
TeacherAtMostOneCons_x_only(d, t, day, p) ==
    LET lessons == {xv(k[1], k[2], day, p) :
                       k \in {kk \in x_teacher_keys(d) : d.assigned_teacher[kk] = t}}
    IN IF lessons # {} THEN << Con("AtMostOne", false_var, lessons, 0) >> ELSE <<>>

\* (3a) at most one lesson of a teacher in a slot (lines 609-612)
TeacherAtMostOneCons(d, t, day, p) ==
    LET lessons == teacher_lessons_in_slot(d, t, day, p)
    IN IF lessons # {} THEN << Con("AtMostOne", false_var, lessons, 0) >> ELSE <<>>

\* a builder that ignores days_off
DaysOffCons_ignored(d, t, day, p) == <<>>

\* (3b) days off of the teacher (lines 616-618)
DaysOffCons(d, t, day, p) ==
    IF day \in Get(d.days_off, t, {})
    THEN ForEach(SetToSeq(teacher_lessons_in_slot(d, t, day, p)), LAMBDA v :
             << Con("Eq0", v, {}, 0) >>)
    ELSE <<>>

\* (3c) forbidden slots of the teacher (lines 626-629)
TeacherForbiddenCons(d, t, day, p) ==
    IF <<day, p>> \in SeqToSet(Get(d.teacher_forbidden_slots, t, <<>>))
    THEN ForEach(SetToSeq(teacher_lessons_in_slot(d, t, day, p)), LAMBDA v :
             << Con("Eq0", v, {}, 0) >>)
    ELSE <<>>

\* (3) the teacher loop (lines 607-629)
TeacherCons(d) ==
    ForEach(d.teachers, LAMBDA t :
        ForEach(SetToSeq(Slots(d)), LAMBDA sl :
               TeacherAtMostOneCons(d, t, sl[1], sl[2])
            \o DaysOffCons(d, t, sl[1], sl[2])
            \o TeacherForbiddenCons(d, t, sl[1], sl[2])))

\* (4a) at most one non-split subject (lines 635-637)
NonSplitAtMostOneCons(d, c, day, p) ==
    IF non_split_vars(d, c, day, p) # {}
    THEN << Con("AtMostOne", false_var, non_split_vars(d, c, day, p), 0) >>
    ELSE <<>>

\* (4b) per subgroup at most one split lesson (lines 640-643)
SubgroupAtMostOneCons(d, c, day, p) ==
    ForEach(d.subgroup_ids, LAMBDA g :
        LET split_by_group == {zv(k[1], k[2], k[3], day, p) :
                                  k \in {kk \in z_keys(d) : kk[1] = c /\ kk[3] = g}}
        IN IF split_by_group # {}
           THEN << Con("AtMostOne", false_var, split_by_group, 0) >>
           ELSE <<>>)

\* a builder that defines has_split but never uses it against the
\* non-split lessons
HasSplitCons_unused(d, c, day, p) ==
    << OrDef(has_split(c, day, p), all_split_vars_in_slot(d, c, day, p)) >>

\* (4c) a non-split lesson excludes every split lesson (lines 649-662)
HasSplitCons(d, c, day, p) ==
       << OrDef(has_split(c, day, p), all_split_vars_in_slot(d, c, day, p)) >>
    \o (IF non_split_vars(d, c, day, p) # {}
        THEN << Con("AtMostOne", false_var,
                    non_split_vars(d, c, day, p) \cup {has_split(c, day, p)}, 0) >>
        ELSE <<>>)

\* (4) the class/slot loop (lines 632-662)
ClassSlotCons(d) ==
    ForEach(SetToSeq(C(d) \X Slots(d)), LAMBDA k :
           NonSplitAtMostOneCons(d, k[1], k[2][1], k[2][2])
        \o SubgroupAtMostOneCons(d, k[1], k[2][1], k[2][2])
        \o HasSplitCons(d, k[1], k[2][1], k[2][2]))

\* (5) is_subj_taught == OR_g z (lines 666-671)
SubjTaughtCons(d) ==
    ForEach(SetToSeq(C(d) \X splitS(d) \X Slots(d)), LAMBDA k :
        << OrDef(is_subj_taught(k[1], k[2], k[3][1], k[3][2]),
                 {zv(kk[1], kk[2], kk[3], k[3][1], k[3][2]) :
                     kk \in {kz \in z_keys(d) : kz[1] = k[1] /\ kz[2] = k[2]}}) >>)

\* itertools.combinations(sorted(splitS), 2) with pair = tuple(sorted((s1, s2)))
SplitPairs(d) ==
    {pr \in splitS(d) \X splitS(d) : pr[1] # pr[2] /\ SortedPair(pr) = pr}

\* a builder that reads compatible_pairs the other way round
CompatCons_inverted(d) ==
    ForEach(SetToSeq(C(d) \X Slots(d)), LAMBDA k :
        ForEach(SetToSeq({pr \in SplitPairs(d) : pr \in d.compatible_pairs}), LAMBDA pr :
            << Con("NotAll", false_var,
                   {is_subj_taught(k[1], pr[1], k[2][1], k[2][2]),
                    is_subj_taught(k[1], pr[2], k[2][1], k[2][2])}, 0) >>))

\* incompatible split subjects never share a slot of a class (lines 674-682)
CompatCons(d) ==
    ForEach(SetToSeq(C(d) \X Slots(d)), LAMBDA k :
        ForEach(SetToSeq({pr \in SplitPairs(d) : pr \notin d.compatible_pairs}), LAMBDA pr :
            << Con("NotAll", false_var,
                   {is_subj_taught(k[1], pr[1], k[2][1], k[2][2]),
                    is_subj_taught(k[1], pr[2], k[2][1], k[2][2])}, 0) >>))

\* lines 695-698: the builder completes data.grade_max_lessons_per_day in place
\* with max(P) for every grade of a class that has no entry
grade_max_filled(d) ==
    LET unique_grades == {class_grades(d)[c] : c \in C(d)}
        old == d.grade_max_lessons_per_day
    IN [g \in DOMAIN old \cup unique_grades |->
           IF g \in DOMAIN old THEN old[g] ELSE MaxOf(P(d), 0)]

\* (6a) lessons per day of a class (lines 702-708); d is the data after line 698
DayLoadCons(d) ==
    ForEach(SetToSeq(C(d) \X D(d)), LAMBDA k :
        IF class_grades(d)[k[1]] \in DOMAIN d.grade_max_lessons_per_day
        THEN << Con("SumLe", false_var, {yv(k[1], k[2], p) : p \in P(d)},
                    d.grade_max_lessons_per_day[class_grades(d)[k[1]]]) >>
        ELSE <<>>)

\* line 715 reads optimizationGoals.subjects_not_last_lesson_optimization.  The
\* class OptimizationGoals of input_data.py (lines 222-224) declares
\* teacher_slot_optimization only, so with that declaration the read raises
\* AttributeError; with a declaration that has the field it yields its value.
GoalsFlagOutcomes == {"AttributeError", "True", "False"}

\* the period list after index p_idx: lessons_after (line 738)
periods_after(d, p) ==
    {d.periods[j] : j \in {i \in 1..Len(d.periods) :
                              \E k \in 1..(i - 1) : d.periods[k] = p}}

\* (6b) subjects that may not be the last lesson of a day (lines 716-760)
NotLastClasses(d) ==
    {c \in C(d) : /\ class_grades(d)[c] \notin {1, 2, 3, 4}
                  /\ Get(d.subjects_not_last_lesson, class_grades(d)[c], {}) # {}}

NotLastCons(d) ==
    ForEach(SetToSeq(NotLastClasses(d)), LAMBDA c :
           ForEach(SetToSeq(Slots(d)), LAMBDA sl :
               LET nla == no_lessons_after(c, sl[1], sl[2])
                   last == day_is_last_lesson(c, sl[1], sl[2])
                   lessons_after == {yv(c, sl[1], q) : q \in periods_after(d, sl[2])}
               IN    (IF lessons_after # {}
                      THEN << Con("IfNotAll", nla, lessons_after, 0),
                              Con("IfNotAny", nla, lessons_after, 0) >>
                      ELSE << Con("Eq1", nla, {}, 0) >>)
                  \o << Con("IfAll", last, {yv(c, sl[1], sl[2]), nla}, 0) >>)
        \o ForEach(SetToSeq(d.subjects_not_last_lesson[class_grades(d)[c]]), LAMBDA s :
               IF s \in splitS(d)
               THEN ForEach(SetToSeq(G(d) \X Slots(d)), LAMBDA k :
                        LET var == IF <<c, s, k[1]>> \in z_keys(d)
                                   THEN zv(c, s, k[1], k[2][1], k[2][2]) ELSE false_var
                        IN << Con("IfNone", var, {day_is_last_lesson(c, k[2][1], k[2][2])}, 0) >>)
               ELSE ForEach(SetToSeq(Slots(d)), LAMBDA sl :
                        LET var == IF <<c, s>> \in x_keys(d)
                                   THEN xv(c, s, sl[1], sl[2]) ELSE false_var
                        IN << Con("IfNone", var, {day_is_last_lesson(c, sl[1], sl[2])}, 0) >>)))

\* english_periods = getattr(data, 'elementary_english_periods', {2, 3, 4}) (line 688)
english_periods(d) == d.elementary_english_periods

\* a builder that restricts the periods of English taught to the whole class only
EnglishCons_whole_class_only(d) ==
    ForEach(SetToSeq({c \in C(d) : class_grades(d)[c] \in {2, 3, 4}}), LAMBDA c :
        LET subj == d.english_subject_name IN
        IF subj = "" \/ subj \in splitS(d) THEN <<>>
        ELSE ForEach(SetToSeq(Slots(d)), LAMBDA sl :
                 IF sl[2] \notin english_periods(d) /\ <<c, subj>> \in x_keys(d)
                 THEN << Con("Eq0", xv(c, subj, sl[1], sl[2]), {}, 0) >>
                 ELSE <<>>))

\* (6c) English of grades 2-4 only in the allowed periods (lines 767-777)
EnglishCons(d) ==
    ForEach(SetToSeq({c \in C(d) : class_grades(d)[c] \in {2, 3, 4}}), LAMBDA c :
        LET subj == d.english_subject_name IN
        IF subj = "" THEN <<>>
        ELSE IF subj \in splitS(d)
        THEN ForEach(SetToSeq({k \in z_keys(d) : k[1] = c /\ k[2] = subj} \X Slots(d)), LAMBDA k :
                 IF k[2][2] \notin english_periods(d)
                 THEN << Con("Eq0", zv(c, subj, k[1][3], k[2][1], k[2][2]), {}, 0) >>
                 ELSE <<>>)
        ELSE ForEach(SetToSeq(Slots(d)), LAMBDA sl :
                 IF sl[2] \notin english_periods(d) /\ <<c, subj>> \in x_keys(d)
                 THEN << Con("Eq0", xv(c, subj, sl[1], sl[2]), {}, 0) >>
                 ELSE <<>>))

\* (6c) grades 2-4: no subject twice in adjacent periods (lines 780-791)
AdjacentCons(d) ==
    ForEach(SetToSeq({c \in C(d) : class_grades(d)[c] \in {2, 3, 4}}), LAMBDA c :
        ForEach(SetToSeq((S(d) \ d.paired_subjects) \X D(d)), LAMBDA k :
            ForEach([i \in 1..(Len(d.periods) - 1) |-> i], LAMBDA idx :
                LET s == k[1]
                    p1 == d.periods[idx]
                    p2 == d.periods[idx + 1]
                    v1 == IF s \in splitS(d) THEN is_subj_taught(c, s, k[2], p1)
                          ELSE IF <<c, s>> \in x_keys(d) THEN xv(c, s, k[2], p1) ELSE false_var
                    v2 == IF s \in splitS(d) THEN is_subj_taught(c, s, k[2], p2)
                          ELSE IF <<c, s>> \in x_keys(d) THEN xv(c, s, k[2], p2) ELSE false_var
                IN << Con("SumLe", false_var, {v1, v2}, 1) >>)))

\* a builder whose loop over the windows stops one window early
ConsecutiveDaysCons_one_window_short(d) ==
    ForEach(SetToSeq(DOMAIN d.grade_subject_max_consecutive_days), LAMBDA grade :
        ForEach(SetToSeq({c \in C(d) : class_grades(d)[c] = grade}), LAMBDA c :
            LET limits == d.grade_subject_max_consecutive_days[grade] IN
            ForEach(SetToSeq(DOMAIN limits), LAMBDA subj :
                   ForEach(SetToSeq(D(d)), LAMBDA day :
                       << OrDef(day_flag(subj, c, day),
                                IF subj \in splitS(d)
                                THEN {zv(k[1], k[2], k[3], day, p) :
                                         k \in {kk \in z_keys(d) : kk[1] = c /\ kk[2] = subj},
                                         p \in P(d)}
                                ELSE {xv(c, subj, day, p) :
                                         p \in {q \in P(d) : <<c, subj>> \in x_keys(d)}}) >>)
                \o ForEach([i \in 1..Max2(0, Len(d.days) - limits[subj] - 1) |-> i], LAMBDA i :
                       << Con("SumLe", false_var,
                              {day_flag(subj, c, d.days[j]) : j \in i..(i + limits[subj])},
                              limits[subj]) >>))))

\* (6d) limit on consecutive days with a subject (lines 795-822)
ConsecutiveDaysCons(d) ==
    ForEach(SetToSeq(DOMAIN d.grade_subject_max_consecutive_days), LAMBDA grade :
        ForEach(SetToSeq({c \in C(d) : class_grades(d)[c] = grade}), LAMBDA c :
            LET limits == d.grade_subject_max_consecutive_days[grade] IN
            ForEach(SetToSeq(DOMAIN limits), LAMBDA subj :
                   ForEach(SetToSeq(D(d)), LAMBDA day :
                       << OrDef(day_flag(subj, c, day),
                                IF subj \in splitS(d)
                                THEN {zv(k[1], k[2], k[3], day, p) :
                                         k \in {kk \in z_keys(d) : kk[1] = c /\ kk[2] = subj},
                                         p \in P(d)}
                                ELSE {xv(c, subj, day, p) :
                                         p \in {q \in P(d) : <<c, subj>> \in x_keys(d)}}) >>)
                \o ForEach([i \in 1..Max2(0, Len(d.days) - limits[subj]) |-> i], LAMBDA i :
                       << Con("SumLe", false_var,
                              {day_flag(subj, c, d.days[j]) : j \in i..(i + limits[subj])},
                              limits[subj]) >>))))

\* a builder that ignores must_sync_split_subjects
MustSyncCons_ignored(d) == <<>>

\* (A) synchronous subgroups (lines 834-843)
MustSyncCons(d) ==
    ForEach(SetToSeq((d.must_sync_split_subjects \cap splitS(d)) \X C(d) \X Slots(d)), LAMBDA k :
        ForEach(SetToSeq({gg \in (1..Len(d.subgroup_ids)) \X (1..Len(d.subgroup_ids)) :
                             gg[1] < gg[2]}), LAMBDA gg :
            LET g1 == d.subgroup_ids[gg[1]]
                g2 == d.subgroup_ids[gg[2]]
            IN IF <<k[2], k[1], g1>> \in z_keys(d) /\ <<k[2], k[1], g2>> \in z_keys(d)
               THEN << Con("Equal", false_var,
                           {zv(k[2], k[1], g1, k[3][1], k[3][2]),
                            zv(k[2], k[1], g2, k[3][1], k[3][2])}, 0) >>
               ELSE <<>>))

\* the constraints emitted before line 715
ConsBeforeGoals(d) ==
       FalseVarCons(d) \o TeacherBusyCons(d) \o OccupancyCons(d) \o PlanCons(d)
    \o TwoHourCons(d) \o TeacherCons(d) \o ClassSlotCons(d) \o SubjTaughtCons(d)
    \o CompatCons(d) \o DayLoadCons(d)

\* the hard constraints of one run that reaches the solver (3.2 and 3.3)
HardCons(d, flag) ==
       ConsBeforeGoals(d)
    \o (IF flag = "True" THEN NotLastCons(d) ELSE <<>>)
    \o EnglishCons(d) \o AdjacentCons(d) \o ConsecutiveDaysCons(d) \o MustSyncCons(d)

\* (3.4 A) the prefix and suffix chains of one entity on one day: of a class
\* over y (lines 889-909), of a teacher over teacher_busy (lines 935-952)
ChainCons(d, kind, e, day) ==
    LET occ(p) == IF kind = "c" THEN yv(e, day, p) ELSE teacher_busy(e, day, p)
        n == Len(d.periods)
    IN    ForEach([i \in 1..n |-> i], LAMBDA idx :
              << Con("MaxEq", prefix(kind, e, day, d.periods[idx]),
                     (IF idx = 1 THEN {} ELSE {prefix(kind, e, day, d.periods[idx - 1])})
                        \cup {occ(d.periods[idx])}, 0) >>)
       \o ForEach([i \in 1..n |-> n + 1 - i], LAMBDA idx :
              << Con("MaxEq", suffix(kind, e, day, d.periods[idx]),
                     (IF idx = n THEN {} ELSE {suffix(kind, e, day, d.periods[idx + 1])})
                        \cup {occ(d.periods[idx])}, 0) >>)

\* a builder that bounds inside from above only
InsideCons_upper_bounds_only(kind, e, day, p) ==
    << Con("IfAll", inside(kind, e, day, p), {prefix(kind, e, day, p)}, 0),
       Con("IfAll", inside(kind, e, day, p), {suffix(kind, e, day, p)}, 0) >>

\* u <= prefix, u <= suffix, u >= prefix + suffix - 1 (lines 911-918, 954-961)
InsideCons(kind, e, day, p) ==
    << Con("IfAll", inside(kind, e, day, p), {prefix(kind, e, day, p)}, 0),
       Con("IfAll", inside(kind, e, day, p), {suffix(kind, e, day, p)}, 0),
       Con("AllImply", inside(kind, e, day, p),
           {prefix(kind, e, day, p), suffix(kind, e, day, p)}, 0) >>

\* (3.4 A) the envelopes of the classes (lines 889-918) and, as
\* OptimizationGoals.teacher_slot_optimization is True, of the teachers
\* (lines 934-961)
EnvelopeCons(d) ==
       ForEach(SetToSeq(C(d) \X D(d)), LAMBDA k : ChainCons(d, "c", k[1], k[2]))
    \o ForEach(SetToSeq(C(d) \X Slots(d)), LAMBDA k :
           InsideCons("c", k[1], k[2][1], k[2][2]))
    \o ForEach(SetToSeq(teacher_set(d) \X D(d)), LAMBDA k : ChainCons(d, "t", k[1], k[2]))
    \o ForEach(SetToSeq(teacher_set(d) \X Slots(d)), LAMBDA k :
           InsideCons("t", k[1], k[2][1], k[2][2]))

\* a builder that bounds the lonely indicator from above only
LonelyCons_upper_bounds_only(d, w) ==
    IF w.epsilon_pairing = 0 \/ d.paired_subjects = {} THEN <<>>
    ELSE ForEach(SetToSeq(d.paired_subjects), LAMBDA s :
        ForEach(SetToSeq(IF s \in splitS(d) THEN {<<c, s, g>> : c \in C(d), g \in G(d)}
                         ELSE {<<c, s>> : c \in C(d)}), LAMBDA item :
            ForEach(SetToSeq(D(d)), LAMBDA day :
                ForEach([i \in 1..Len(d.periods) |-> i], LAMBDA idx :
                    LET var(p) == IF Len(item) = 3
                                  THEN (IF item \in z_keys(d)
                                        THEN zv(item[1], item[2], item[3], day, p)
                                        ELSE false_var)
                                  ELSE (IF item \in x_keys(d)
                                        THEN xv(item[1], item[2], day, p) ELSE false_var)
                        curr == var(d.periods[idx])
                        prev_ == IF idx > 1 THEN var(d.periods[idx - 1]) ELSE false_var
                        next_ == IF idx < Len(d.periods) THEN var(d.periods[idx + 1])
                                 ELSE false_var
                        u == lonely(item, day, d.periods[idx])
                    IN << Con("IfAll", u, {curr}, 0),
                          Con("IfNone", u, {prev_}, 0),
                          Con("IfNone", u, {next_}, 0) >>))))

\* (3.4 E) u = curr and not prev and not next, as four linear constraints, for
\* every paired subject, class (and subgroup), day and period (lines 997-1023)
LonelyCons(d, w) ==
    IF w.epsilon_pairing = 0 \/ d.paired_subjects = {} THEN <<>>
    ELSE ForEach(SetToSeq(d.paired_subjects), LAMBDA s :
        ForEach(SetToSeq(IF s \in splitS(d) THEN {<<c, s, g>> : c \in C(d), g \in G(d)}
                         ELSE {<<c, s>> : c \in C(d)}), LAMBDA item :
            ForEach(SetToSeq(D(d)), LAMBDA day :
                ForEach([i \in 1..Len(d.periods) |-> i], LAMBDA idx :
                    LET var(p) == IF Len(item) = 3
                                  THEN (IF item \in z_keys(d)
                                        THEN zv(item[1], item[2], item[3], day, p)
                                        ELSE false_var)
                                  ELSE (IF item \in x_keys(d)
                                        THEN xv(item[1], item[2], day, p) ELSE false_var)
                        curr == var(d.periods[idx])
                        prev_ == IF idx > 1 THEN var(d.periods[idx - 1]) ELSE false_var
                        next_ == IF idx < Len(d.periods) THEN var(d.periods[idx + 1])
                                 ELSE false_var
                        u == lonely(item, day, d.periods[idx])
                    IN << Con("IfAll", u, {curr}, 0),
                          Con("IfNone", u, {prev_}, 0),
                          Con("IfNone", u, {next_}, 0),
                          Con("GeDiff", u, {prev_, next_}, curr) >>))))

\* all constraints of the model handed to the solver (3.2, 3.3 and 3.4)
ModelCons(d, flag, w) == HardCons(d, flag) \o EnvelopeCons(d) \o LonelyCons(d, w)

\* the values in assignment val of the terms of the objective, in the order
\* of lines 1030-1035: teacher windows (line 964), class windows (lines
\* 921-925), early slots (line 971), balance over the days (lines 974-983),
\* tails (lines 986-988), lonely lessons (line 1024)
objective_terms(d, w, val) ==
    LET load(c, day) == Cardinality({p \in P(d) : yv(c, day, p) \in val})
        spread(c) ==
            LET loads == {load(c, day) : day \in D(d)}
            IN MaxOf(loads, 0) - (CHOOSE m \in loads : \A v \in loads : m <= v)
    IN << w.alpha_runs_teacher
             * Cardinality({k \in teacher_set(d) \X Slots(d) :
                               inside("t", k[1], k[2][1], k[2][2]) \in val}),
          w.alpha_runs
             * Cardinality({k \in C(d) \X Slots(d) :
                               /\ class_grades(d)[k[1]] \notin {2, 3, 4}
                               /\ inside("c", k[1], k[2][1], k[2][2]) \in val}),
          w.beta_early
             * SumOver({k \in C(d) \X Slots(d) : yv(k[1], k[2][1], k[2][2]) \in val},
                       LAMBDA k : k[2][2]),
          IF w.gamma_balance # 0
          THEN w.gamma_balance * SumOver(C(d), LAMBDA c : spread(c)) ELSE 0,
          w.delta_tail
             * Cardinality({k \in C(d) \X Slots(d) :
                               /\ yv(k[1], k[2][1], k[2][2]) \in val
                               /\ k[2][2] > w.last_ok_period}),
          w.epsilon_pairing * Cardinality({v \in val : v[1] = "lonely"}) >>

\* the objective handed to model.Minimize (lines 1029-1037)
objective(d, w, val) == SumSeq(objective_terms(d, w, val))

-----------------------------------------------------------------------------
(* The backend.  An assignment is the set of the variables with value 1.   *)

Holds(con, val) ==
    CASE con.op = "MaxEq"     -> (con.target \in val) <=> (con.vs \cap val # {})
      [] con.op = "Eq0"       -> con.target \notin val
      [] con.op = "Eq1"       -> con.target \in val
      [] con.op = "SumEq"     -> Cardinality(con.vs \cap val) = con.rhs
      [] con.op = "SumLe"     -> Cardinality(con.vs \cap val) <= con.rhs
      [] con.op = "AtMostOne" -> Cardinality(con.vs \cap val) <= 1
      [] con.op = "NotAll"    -> ~(con.vs \subseteq val)
      [] con.op = "Equal"     -> con.vs \subseteq val \/ con.vs \cap val = {}
      [] con.op = "IfNotAll"  -> con.target \in val => ~(con.vs \subseteq val)
      [] con.op = "IfNotAny"  -> con.target \notin val => con.vs \cap val # {}
      [] con.op = "IfAll"     -> con.target \in val => con.vs \subseteq val
      [] con.op = "IfNone"    -> con.target \in val => con.vs \cap val = {}
      [] con.op = "AllImply"  -> con.vs \subseteq val => con.target \in val
      [] con.op = "GeDiff"    -> (con.rhs \in val /\ con.vs \cap val = {})
                                    => con.target \in val

Satisfies(val, cs) == \A i \in 1..Len(cs) : Holds(cs[i], val)

\* the calls that fix the value of their target from other variables
DefOps == {"MaxEq", "Eq0", "Eq1"}
UsesTarget == DefOps \cup {"IfNotAll", "IfNotAny", "IfAll", "IfNone", "AllImply", "GeDiff"}

VarsOf(cs) ==
    UNION {cs[i].vs \cup (IF cs[i].op \in UsesTarget THEN {cs[i].target} ELSE {})
                    \cup (IF cs[i].op = "GeDiff" THEN {cs[i].rhs} ELSE {}) :
              i \in 1..Len(cs)}
DefinedVars(cs) == {cs[i].target : i \in {j \in 1..Len(cs) : cs[j].op \in DefOps}}
\* the variables no constraint defines: the solver chooses them
DecisionVars(cs) == VarsOf(cs) \ DefinedVars(cs)

RECURSIVE Propagate(_, _)
\* the values of the defined variables that follow from val
Propagate(cs, val) ==
    LET new == {cs[i].target : i \in {j \in 1..Len(cs) :
                    \/ cs[j].op = "Eq1"
                    \/ cs[j].op = "MaxEq" /\ cs[j].vs \cap val # {}}}
    IN IF new \subseteq val THEN val ELSE Propagate(cs, val \cup new)

RECURSIVE Extend(_, _, _, _)
\* the assignments of vals extended by every choice of the flags of todo
\* that the constraints allow; a constraint is applied as soon as none of its
\* variables is among the flags still open
Extend(cs, vals, todo, open) ==
    IF todo = <<>> THEN vals
    ELSE LET v == Head(todo)
             rest == open \ {v}
             now == SelectSeq(cs, LAMBDA con :
                        v \in VarsOf(<<con>>) /\ VarsOf(<<con>>) \cap rest = {})
         IN Extend(cs, {val \in vals \cup {a \cup {v} : a \in vals} : Satisfies(val, now)},
                   Tail(todo), rest)

\* every assignment that satisfies the constraints cs: the choices of the
\* lesson variables x and z, the values that follow for the defined variables,
\* and the choices of the remaining flags
Solutions(cs) ==
    LET dv == DecisionVars(cs)
        lv == {v \in dv : v[1] \in {"x", "z"}}
        direct == SelectSeq(cs, LAMBDA con :
                      con.op \notin DefOps /\ VarsOf(<<con>>) \subseteq lv)
        cands == {a \in SUBSET lv : Satisfies(a, direct)}
        full == Extend(cs, {Propagate(cs, a) : a \in cands}, SetToSeq(dv \ lv), dv \ lv)
    IN {val \in full : Satisfies(val, cs)}

-----------------------------------------------------------------------------
(* The run of build_and_solve_with_or_tools                                *)

\* line 511: _validate_input_data(data)
Validate ==
    /\ pc = "start"
    /\ LET r == validate_input_data(data)
       IN /\ outcome' = r.outcome
          /\ errors' = r.errors
          /\ raised' = IF r.outcome = "returned" THEN "none" ELSE r.outcome
          /\ pc' = IF r.outcome = "returned" THEN "validated" ELSE "raised"
    /\ UNCHANGED <<hashOrder, weights, ilp, daily, data, cons, status, sched, solveCalls, exported>>

\* lines 513-592: a lookup of a key without variables raises KeyError
BuildKeyErr ==
    /\ pc = "validated"
    /\ BuildKeyError(data)
    /\ raised' = "KeyError"
    /\ pc' = "raised"
    /\ UNCHANGED <<hashOrder, weights, ilp, daily, data, outcome, errors, cons, status, sched, solveCalls, exported>>

\* lines 513-715 with OptimizationGoals as input_data.py declares it
BuildAttrErr ==
    /\ pc = "validated"
    /\ ~BuildKeyError(data)
    /\ "AttributeError" \in GoalsFlagOutcomes
    /\ data' = [data EXCEPT !.grade_max_lessons_per_day = grade_max_filled(data)]
    /\ cons' = ConsBeforeGoals(data')
    /\ raised' = "AttributeError"
    /\ pc' = "raised"
    /\ UNCHANGED <<hashOrder, weights, ilp, daily, outcome, errors, status, sched, solveCalls, exported>>

\* lines 513-1054: the model is built up to the call of the solver
Build ==
    /\ pc = "validated"
    /\ ~BuildKeyError(data)
    /\ \E flag \in GoalsFlagOutcomes \ {"AttributeError"} :
          /\ data' = [data EXCEPT !.grade_max_lessons_per_day = grade_max_filled(data)]
          /\ cons' = ModelCons(data', flag, weights)
    /\ pc' = "built"
    /\ UNCHANGED <<hashOrder, weights, ilp, daily, outcome, raised, errors, status, sched, solveCalls, exported>>

\* line 1057: status = solver.Solve(model).  The backend answers with a
\* schedule that satisfies the constraints (OPTIMAL within the relative gap, or
\* FEASIBLE), proves that there is none, or stops at a limit without an answer.
Solve ==
    /\ pc = "built"
    /\ \E sols \in {Solutions(cons)} :
          \/ /\ sols # {}
             /\ sched' \in sols
             /\ status' \in {"OPTIMAL", "FEASIBLE"}
          \/ /\ sols = {}
             /\ status' = "INFEASIBLE"
             /\ sched' = sched
          \/ /\ status' = "UNKNOWN"
             /\ sched' = sched
    /\ solveCalls' = solveCalls + 1
    /\ pc' = "solved"
    /\ UNCHANGED <<hashOrder, weights, ilp, daily, data, outcome, raised, errors, cons, exported>>

\* lines 1063-1101: statistics and export for a usable status, a message otherwise
Report ==
    /\ pc = "solved"
    /\ exported' = (status \in {"OPTIMAL", "FEASIBLE"})
    /\ pc' = "done"
    /\ UNCHANGED <<hashOrder, weights, ilp, daily, data, outcome, raised, errors, cons, status, sched, solveCalls>>

-----------------------------------------------------------------------------
(* The inputs of the runs: a school of two fifth-grade classes, a          *)
(* non-split subject and two split subjects, two subgroups, two teachers,  *)
(* a week of two days with two periods.                                    *)

\* bound of the inputs: the weekly hours of a lesson range over 0..MaxHours
MaxHours == 2

BaseData ==
    [days |-> <<"Mon", "Tue">>,
     periods |-> <<1, 2>>,
     classes |-> <<[name |-> "5A", grade |-> 5], [name |-> "5B", grade |-> 5]>>,
     subjects |-> <<"math", "eng", "cs">>,
     teachers |-> <<"T1", "T2">>,
     english_subject_name |-> "eng",
     split_subjects |-> {"eng", "cs"},
     subgroup_ids |-> <<1, 2>>,
     plan_hours |-> Empty,
     subgroup_plan_hours |-> Empty,
     assigned_teacher |-> Empty,
     subgroup_assigned_teacher |-> Empty,
     days_off |-> Empty,
     teacher_forbidden_slots |-> Empty,
     forbidden_slots |-> {},
     grade_max_lessons_per_day |-> [g \in {2, 3, 4} |-> IF g = 2 THEN 4 ELSE 5],
     subjects_not_last_lesson |-> Empty,
     elementary_english_periods |-> {2},
     grade_subject_max_consecutive_days |-> Empty,
     class_slot_weight |-> Empty,
     teacher_slot_weight |-> Empty,
     class_subject_day_weight |-> Empty,
     compatible_pairs |-> {},
     paired_subjects |-> {},
     must_sync_split_subjects |-> {}]

XKeyU == {<<"5A", "math">>, <<"5B", "math">>}
ZKeyU == {<<"5A", "eng", 1>>, <<"5A", "eng", 2>>, <<"5A", "cs", 1>>, <<"5A", "cs", 2>>}

\* one restriction at a time on top of the plan
Restricted(d, r) ==
    CASE r = "none" -> d
      [] r = "teacher_unavailable" ->
            [d EXCEPT !.days_off = [t \in {"T1"} |-> {"Mon"}],
                      !.teacher_forbidden_slots = [t \in {"T2"} |-> << <<"Tue", 1>> >>]]
      [] r = "forbidden_slots" -> [d EXCEPT !.forbidden_slots = {<<"5A", "Mon", 1>>}]
      [] r = "compatible_pairs" -> [d EXCEPT !.compatible_pairs = {<<"cs", "eng">>}]

Restrictions ==
    {"none", "teacher_unavailable", "forbidden_slots", "compatible_pairs"}

\* the plan of a run: the hours and the teachers of its lessons
PlanData(ph, sph, at, sat) ==
    [BaseData EXCEPT !.plan_hours = ph, !.subgroup_plan_hours = sph,
                     !.assigned_teacher = at, !.subgroup_assigned_teacher = sat]

\* inputs that end the run early: no classes; an assignment without plan hours
BrokenData ==
    {[BaseData EXCEPT !.classes = <<>>],
     [BaseData EXCEPT !.classes = <<>>, !.plan_hours = [k \in {<<"5A", "math">>} |-> 1],
                      !.assigned_teacher = [k \in {<<"5A", "math">>} |-> "T1"]],
     [BaseData EXCEPT !.assigned_teacher = [k \in {<<"5A", "math">>} |-> "T1"]]}

\* the weights of the objective and the fields that select the solving
\* protocol, with their declared defaults (input_data.py lines 198-214)
OptimizationWeights ==
    [alpha_runs |-> 10, alpha_runs_teacher |-> 2, beta_early |-> 1, gamma_balance |-> 1,
     delta_tail |-> 10, epsilon_pairing |-> 20, last_ok_period |-> 6,
     use_lexico |-> FALSE, lexico_primary |-> "teacher_windows"]

\* no comparison of the compactness objectives is under way
NoPatterns == [feasible |-> {}, compared |-> FALSE, min_runs |-> {}, min_inside |-> {}]

InitRun ==
    /\ pc = "start"
    /\ outcome = "none"
    /\ raised = "none"
    /\ errors = <<>>
    /\ cons = <<>>
    /\ status = "none"
    /\ sched = {}
    /\ solveCalls = 0
    /\ exported = FALSE
    /\ ilp = [A |-> <<>>, b |-> 0, c |-> <<>>, ub |-> 0, result |-> <<>>]
    /\ daily = NoPatterns

\* a run gets a plan of one or two lessons (k1 = k2: one), each with its weekly
\* hours and its teacher, and one of the restrictions; or a broken input
Init ==
    /\ \/ \E k1 \in XKeyU \cup ZKeyU, k2 \in XKeyU \cup ZKeyU :
             LET kx == {k1, k2} \cap XKeyU
                 kz == {k1, k2} \cap ZKeyU
             IN \E ph \in [kx -> 0..MaxHours], sph \in [kz -> 0..MaxHours],
                   at \in [kx -> {"T1", "T2"}], sat \in [kz -> {"T1", "T2"}],
                   r \in Restrictions :
                   data = Restricted(PlanData(ph, sph, at, sat), r)
       \/ data \in BrokenData
    /\ InitRun
    /\ hashOrder = "fwd"
    /\ weights = OptimizationWeights

Next ==
    \/ Validate
    \/ BuildKeyErr
    \/ BuildAttrErr
    \/ Build
    \/ Solve
    \/ Report

Spec == Init /\ [][Next]_vars

-----------------------------------------------------------------------------
(* The inputs of _validate_input_data on its own: a school of one class    *)
(* with a whole-class lesson and a split lesson of two subgroups, in which *)
(* base lists may be empty, a day may be listed twice, and the             *)
(* restrictions may name a period the school does not have.                *)

BaseSetNames == {"days", "periods", "classes", "subjects", "teachers", "subgroup_ids"}

\* no base list, one base list or every base list is empty
EmptiedSets == {{}} \cup {{n} : n \in BaseSetNames} \cup {BaseSetNames}

DayLists == {<<"Mon">>, <<"Mon", "Tue">>, <<"Mon", "Mon">>}

\* restrictions of teacher T1
TeacherLimits == {"none", "day_off", "slot", "unknown_period"}
\* forbidden_slots of class 5A
ClassLimits == {"none", "slot", "unknown_period"}
\* grade_max_lessons_per_day: the default of InputData, or one lesson a day in grade 5
DailyCaps == {BaseData.grade_max_lessons_per_day, [g \in {5} |-> 1]}

ValidatorData(emptied, dy, withPlan, hx, hz1, hz2, tl, fl, gm) ==
    [BaseData EXCEPT
        !.days = IF "days" \in emptied THEN <<>> ELSE dy,
        !.periods = IF "periods" \in emptied THEN <<>> ELSE @,
        !.classes = IF "classes" \in emptied THEN <<>> ELSE <<[name |-> "5A", grade |-> 5]>>,
        !.subjects = IF "subjects" \in emptied THEN <<>> ELSE @,
        !.teachers = IF "teachers" \in emptied THEN <<>> ELSE @,
        !.subgroup_ids = IF "subgroup_ids" \in emptied THEN <<>> ELSE @,
        !.plan_hours = IF withPlan THEN [k \in {<<"5A", "math">>} |-> hx] ELSE Empty,
        !.assigned_teacher = IF withPlan THEN [k \in {<<"5A", "math">>} |-> "T1"] ELSE Empty,
        !.subgroup_plan_hours =
            IF withPlan
            THEN [k \in {<<"5A", "eng", 1>>, <<"5A", "eng", 2>>} |-> IF k[3] = 1 THEN hz1 ELSE hz2]
            ELSE Empty,
        !.subgroup_assigned_teacher =
            IF withPlan
            THEN [k \in {<<"5A", "eng", 1>>, <<"5A", "eng", 2>>} |->
                     IF k[3] = 1 THEN "T1" ELSE "T2"]
            ELSE Empty,
        !.days_off = IF tl = "day_off" THEN [t \in {"T1"} |-> {"Mon"}] ELSE Empty,
        !.teacher_forbidden_slots =
            CASE tl = "slot" -> [t \in {"T1"} |-> << <<"Mon", 1>> >>]
              [] tl = "unknown_period" -> [t \in {"T1"} |-> << <<"Mon", 9>> >>]
              [] OTHER -> Empty,
        !.forbidden_slots =
            CASE fl = "slot" -> {<<"5A", "Mon", 1>>}
              [] fl = "unknown_period" -> {<<"5A", "Mon", 9>>}
              [] OTHER -> {},
        !.grade_max_lessons_per_day = gm]

\* the lists of subgroup ids of a school with one or with two subgroups
SubgroupLists == {<<1>>, <<1, 2>>}

\* a class whose split subject eng is in must_sync_split_subjects: the hours
\* and the teacher of each subgroup of the list gids
MustSyncData(gids, h1, h2, t1, t2) ==
    LET keys == {<<"5A", "eng", gids[i]>> : i \in 1..Len(gids)} IN
    [BaseData EXCEPT
        !.classes = <<[name |-> "5A", grade |-> 5]>>,
        !.subgroup_ids = gids,
        !.must_sync_split_subjects = {"eng"},
        !.subgroup_plan_hours = [k \in keys |-> IF k[3] = 1 THEN h1 ELSE h2],
        !.subgroup_assigned_teacher = [k \in keys |-> IF k[3] = 1 THEN t1 ELSE t2]]

InitV ==
    /\ \/ \E emptied \in EmptiedSets, dy \in DayLists, withPlan \in BOOLEAN,
             hx \in 0..MaxHours, hz1 \in 0..MaxHours, hz2 \in {0, MaxHours},
             tl \in TeacherLimits, fl \in ClassLimits, gm \in DailyCaps :
             data = ValidatorData(emptied, dy, withPlan, hx, hz1, hz2, tl, fl, gm)
       \/ \E gids \in SubgroupLists, h1 \in 0..MaxHours, h2 \in 0..MaxHours,
             t1 \in {"T1", "T2"}, t2 \in {"T1", "T2"} :
             data = MustSyncData(gids, h1, h2, t1, t2)
    /\ InitRun
    /\ hashOrder = "fwd"
    /\ weights = OptimizationWeights

NextV == Validate

\* _validate_input_data called on each of these inputs
SpecV == InitV /\ [][NextV]_vars

-----------------------------------------------------------------------------
(* Runs under the scheduling rules of InputData and under the two-phase    *)
(* setting of OptimizationWeights: a fifth-grade and a third-grade class,  *)
(* one of them with two lessons in the plan.                               *)

\* the rules, named after the field that switches them on (period_numbers: a
\* second setting of periods)
Rules ==
    {"use_lexico", "paired_subjects", "subjects_not_last_lesson",
     "must_sync_split_subjects", "grade_subject_max_consecutive_days",
     "elementary_english_periods", "periods", "period_numbers", "class_slot_weight"}

\* the rules about the subgroups get eng in both subgroups of class c, the other
\* rules get math for the whole class and eng in subgroup 1; h1, h2 are the
\* weekly hours of the two lessons
RuleData(r, c, h1, h2) ==
    LET sub == r \in {"must_sync_split_subjects", "elementary_english_periods"}
        d == [BaseData EXCEPT
                 !.classes = <<[name |-> "5A", grade |-> 5], [name |-> "3A", grade |-> 3]>>,
                 !.plan_hours = IF sub THEN Empty ELSE (<<c, "math">> :> h1),
                 !.assigned_teacher = IF sub THEN Empty ELSE (<<c, "math">> :> "T1"),
                 !.subgroup_plan_hours =
                     IF sub THEN (<<c, "eng", 1>> :> h1 @@ <<c, "eng", 2>> :> h2)
                     ELSE (<<c, "eng", 1>> :> h2),
                 !.subgroup_assigned_teacher =
                     IF sub THEN (<<c, "eng", 1>> :> "T1" @@ <<c, "eng", 2>> :> "T2")
                     ELSE (<<c, "eng", 1>> :> "T2")]
    IN CASE r = "use_lexico" -> d
         [] r = "paired_subjects" -> [d EXCEPT !.paired_subjects = {"math"}]
         [] r = "subjects_not_last_lesson" ->
               [d EXCEPT !.subjects_not_last_lesson = [g \in {3, 5} |-> {"math"}]]
         [] r = "must_sync_split_subjects" ->
               [d EXCEPT !.must_sync_split_subjects = {"eng"}]
         [] r = "grade_subject_max_consecutive_days" ->
               [d EXCEPT !.grade_subject_max_consecutive_days =
                             [g \in {3, 5} |-> [s \in {"math", "eng"} |-> 1]],
                         !.paired_subjects = {"math", "eng"}]
         [] r = "elementary_english_periods" ->
               [d EXCEPT !.elementary_english_periods = {1}]
         [] r = "class_slot_weight" ->
               [d EXCEPT !.class_slot_weight = (<<c, "Mon", 1>> :> 3),
                         !.teacher_slot_weight = (<<"T1", "Tue", 2>> :> 2),
                         !.class_subject_day_weight = (<<c, "eng", "Tue">> :> 1)]
         \* one day of three periods, so that a day can have a free period
         \* between two lessons
         [] r = "periods" ->
               [d EXCEPT !.days = <<"Mon">>, !.periods = <<1, 2, 3>>,
                         !.paired_subjects = {"math"}]
         \* the same day with period numbers that skip one
         [] r = "period_numbers" ->
               [d EXCEPT !.days = <<"Mon">>, !.periods = <<1, 2, 4>>,
                         !.paired_subjects = {"math"}]

InitR ==
    /\ \/ \E r \in Rules, c \in {"5A", "3A"}, h1 \in 0..MaxHours, h2 \in 0..MaxHours :
             /\ data = RuleData(r, c, h1, h2)
             /\ weights \in
                   IF r = "use_lexico"
                   THEN {[OptimizationWeights EXCEPT !.use_lexico = TRUE,
                                                     !.lexico_primary = prim] :
                            prim \in {"teacher_windows", "class_windows"}}
                   ELSE {OptimizationWeights}
       \/ data \in BrokenData /\ weights = OptimizationWeights
    /\ InitRun
    /\ hashOrder = "fwd"

SpecR == InitR /\ [][Next]_vars

-----------------------------------------------------------------------------
(* ilp_minimize_ge of min.py: minimize c.x subject to A x >= b over the     *)
(* integer vectors x with lb <= x <= ub, here with one constraint row, two  *)
(* variables and lb = 0.                                                    *)

\* bounds of the instances: the entries of A, b and c, and the upper bound ub
MaxCoef == 2
MaxUb == 2

\* the vectors within the bounds that satisfy A x >= b (min.py lines 20-24)
IlpFeasible(a) ==
    {x \in [1..2 -> 0..a.ub] : a.A[1] * x[1] + a.A[2] * x[2] >= a.b}

\* c^T x (min.py line 27)
IlpObjective(a, x) == a.c[1] * x[1] + a.c[2] * x[2]

\* min.py lines 34-40: the dict returned for solver status st and values x;
\* an entry that is None is the empty tuple, an entry with value v is <<v>>
IlpResult(a, st, x) ==
    IF st \in {"OPTIMAL", "FEASIBLE"}
    THEN [status |-> IF st = "OPTIMAL" THEN "OPTIMAL" ELSE "FEASIBLE",
          objective |-> <<IlpObjective(a, x)>>, x |-> <<x>>]
    ELSE [status |-> "INFEASIBLE/UNKNOWN", objective |-> <<>>, x |-> <<>>]

\* min.py lines 29-40: the solver proves an optimum, stops at the time limit
\* with a feasible vector or with none, or proves that there is no vector
ilp_minimize_ge ==
    /\ ilp.A # <<>> /\ ilp.result = <<>>
    /\ \E F \in {IlpFeasible(ilp)} :
          \/ \E x \in F :
                /\ \A o \in F : IlpObjective(ilp, x) <= IlpObjective(ilp, o)
                /\ status' = "OPTIMAL"
                /\ ilp' = [ilp EXCEPT !.result = <<IlpResult(ilp, "OPTIMAL", x)>>]
          \/ \E x \in F :
                /\ status' = "FEASIBLE"
                /\ ilp' = [ilp EXCEPT !.result = <<IlpResult(ilp, "FEASIBLE", x)>>]
          \/ /\ F = {}
             /\ status' = "INFEASIBLE"
             /\ ilp' = [ilp EXCEPT !.result = <<IlpResult(ilp, "INFEASIBLE", <<>>)>>]
          \/ /\ status' = "UNKNOWN"
             /\ ilp' = [ilp EXCEPT !.result = <<IlpResult(ilp, "UNKNOWN", <<>>)>>]
    /\ solveCalls' = solveCalls + 1
    /\ UNCHANGED <<hashOrder, weights, daily, data, pc, outcome, raised, errors, cons,
                   sched, exported>>

InitM ==
    /\ \E A \in [1..2 -> 0..MaxCoef], b \in 0..(MaxCoef + 1), c \in [1..2 -> 0..MaxCoef] :
          ilp = [A |-> A, b |-> b, c |-> c, ub |-> MaxUb, result |-> <<>>]
    /\ data = BaseData
    /\ pc = "start" /\ outcome = "none" /\ raised = "none" /\ errors = <<>>
    /\ cons = <<>> /\ status = "none" /\ sched = {} /\ solveCalls = 0
    /\ exported = FALSE
    /\ hashOrder = "fwd"
    /\ weights = OptimizationWeights
    /\ daily = NoPatterns

SpecM == InitM /\ [][ilp_minimize_ge]_vars

-----------------------------------------------------------------------------
(* The two compactness objectives on the occupancy of one entity on one    *)
(* day: the block starts srun of rasp7.py and the envelope inside of       *)
(* rasp_or_tools.py.  A pattern is the sequence y of the day, one 0/1      *)
(* entry per period.                                                       *)

\* bounds: the periods of the day and the patterns that are feasible
PatternLen == 4
MaxPatterns == 3

Patterns == [1..PatternLen -> {0, 1}]

\* the sets of at most k patterns
RECURSIVE PatternSets(_)
PatternSets(k) ==
    IF k = 0 THEN {{}}
    ELSE LET smaller == PatternSets(k - 1)
         IN smaller \cup {F \cup {y} : F \in smaller, y \in Patterns}

\* an objective that counts every occupied period as a block start
obj_runs_every_lesson(y) == SumSeq(y)

\* rasp7.py lines 266-281: the values of srun that the constraints allow for
\* pattern y (srun[P[0]] == y[P[0]]; srun[p] >= y[p] - y[prev_p];
\* srun[p] <= y[p])
srun_values(y) ==
    {srun \in [1..Len(y) -> {0, 1}] :
        /\ srun[1] = y[1]
        /\ \A i \in 2..Len(y) : srun[i] >= y[i] - y[i - 1] /\ srun[i] <= y[i]}

\* rasp7.py lines 300-301 under minimisation: the least sum of srun for y
obj_runs(y) ==
    LET sums == {SumSeq(srun) : srun \in srun_values(y)}
    IN CHOOSE m \in sums : \A v \in sums : m <= v

\* rasp_or_tools.py lines 886-918: prefix and suffix by their chains, inside
\* as their conjunction; the sum of inside over the day
sum_inside(y) ==
    LET n == Len(y)
        pre[i \in 1..n] == IF i = 1 THEN y[1] ELSE Max2(pre[i - 1], y[i])
        suf[i \in 1..n] == IF i = 1 THEN y[n] ELSE Max2(suf[i - 1], y[n + 1 - i])
    IN Cardinality({i \in 1..n : pre[i] = 1 /\ suf[n + 1 - i] = 1})

\* the patterns of F with the least value of objective f
Minimizers(F, f(_)) == {y \in F : \A o \in F : f(y) <= f(o)}

\* the two programs minimise over the same feasible patterns
MinimizeCompactness ==
    /\ daily.feasible # {} /\ ~daily.compared
    /\ daily' = [daily EXCEPT !.compared = TRUE,
                              !.min_runs = Minimizers(daily.feasible, obj_runs),
                              !.min_inside = Minimizers(daily.feasible, sum_inside)]
    /\ UNCHANGED <<hashOrder, weights, ilp, data, pc, outcome, raised, errors, cons, status,
                   sched, solveCalls, exported>>

InitP ==
    /\ \E F \in PatternSets(MaxPatterns) \ {{}} :
          daily = [NoPatterns EXCEPT !.feasible = F]
    /\ data = BaseData
    /\ pc = "start" /\ outcome = "none" /\ raised = "none" /\ errors = <<>>
    /\ cons = <<>> /\ status = "none" /\ sched = {} /\ solveCalls = 0
    /\ exported = FALSE
    /\ hashOrder = "fwd"
    /\ weights = OptimizationWeights
    /\ ilp = [A |-> <<>>, b |-> 0, c |-> <<>>, ub |-> 0, result |-> <<>>]

SpecP == InitP /\ [][MinimizeCompactness]_vars

-----------------------------------------------------------------------------
(* _validate_input_data called again and again on the same InputData, in   *)
(* the same or in another interpreter process.  outcome and errors keep    *)
(* the result of the previous call until the next call ends.               *)

InitD ==
    /\ \E emptied \in {{}, {"days"}}, hx \in 0..MaxHours, hz1 \in 0..MaxHours,
          hz2 \in {0, MaxHours}, tl \in TeacherLimits :
          data = ValidatorData(emptied, <<"Mon">>, TRUE, hx, hz1, hz2, tl, "none",
                               BaseData.grade_max_lessons_per_day)
    /\ InitRun
    /\ hashOrder \in HashOrders
    /\ weights = OptimizationWeights

\* the caller validates the same data once more
Restart ==
    /\ pc \in {"validated", "raised"}
    /\ pc' = "start"
    /\ hashOrder' \in HashOrders
    /\ UNCHANGED <<weights, ilp, daily, data, outcome, raised, errors, cons, status, sched, solveCalls, exported>>

NextD ==
    \/ Validate
    \/ Restart

SpecD == InitD /\ [][NextD]_vars

-----------------------------------------------------------------------------
(* Properties of the schedules the run obtains from the solver             *)

\* the solver answered with a schedule
ScheduleFound == pc \in {"solved", "done"} /\ status \in {"OPTIMAL", "FEASIBLE"}

\* the slots of the week, from the input lists
WeekSlots == day_set(data) \X period_set(data)

\* the lessons of the plan placed in slot sl of class c: whole-class / subgroup
PlacedX(c, sl) == {k \in DOMAIN data.plan_hours :
                      k[1] = c /\ xv(k[1], k[2], sl[1], sl[2]) \in sched}
PlacedZ(c, sl) == {k \in DOMAIN data.subgroup_plan_hours :
                      k[1] = c /\ zv(k[1], k[2], k[3], sl[1], sl[2]) \in sched}

\* the lessons of teacher t placed in slot sl
TaughtX(t, sl) == {k \in DOMAIN data.assigned_teacher :
                      data.assigned_teacher[k] = t /\ xv(k[1], k[2], sl[1], sl[2]) \in sched}
TaughtZ(t, sl) == {k \in DOMAIN data.subgroup_assigned_teacher :
                      /\ data.subgroup_assigned_teacher[k] = t
                      /\ zv(k[1], k[2], k[3], sl[1], sl[2]) \in sched}

\* C1 (plan conformance): in every schedule the solver returns, each key of
\* plan_hours has exactly plan_hours[key] slots with x = 1 and each key of
\* subgroup_plan_hours has exactly subgroup_plan_hours[key] slots with z = 1.
C1_PlanConformance ==
    ScheduleFound =>
        /\ \A k \in DOMAIN data.plan_hours :
              Cardinality({sl \in WeekSlots : xv(k[1], k[2], sl[1], sl[2]) \in sched})
                 = data.plan_hours[k]
        /\ \A k \in DOMAIN data.subgroup_plan_hours :
              Cardinality({sl \in WeekSlots : zv(k[1], k[2], k[3], sl[1], sl[2]) \in sched})
                 = data.subgroup_plan_hours[k]

\* a schedule for a plan with a two-hour whole-class lesson and a one-hour
\* subgroup lesson
C1_Witness ==
    /\ ScheduleFound
    /\ \E k \in DOMAIN data.plan_hours : data.plan_hours[k] = 2
    /\ \E k \in DOMAIN data.subgroup_plan_hours : data.subgroup_plan_hours[k] = 1

\* C2 (no teacher double-booking): in every schedule the solver returns, for
\* every teacher and every slot at most one lesson is placed among the
\* teacher's whole-class and subgroup lessons together.
C2_NoTeacherDoubleBooking ==
    ScheduleFound =>
        \A t \in teacher_set(data), sl \in WeekSlots :
            Cardinality(TaughtX(t, sl)) + Cardinality(TaughtZ(t, sl)) <= 1

\* a schedule in which one teacher gives a whole-class lesson and a subgroup
\* lesson of another class
C2_Witness ==
    /\ ScheduleFound
    /\ \E t \in teacher_set(data), s1 \in WeekSlots, s2 \in WeekSlots :
          \E kx \in TaughtX(t, s1), kz \in TaughtZ(t, s2) : kx[1] # kz[1]

TaughtSplit(c, sl) == {k[2] : k \in PlacedZ(c, sl)}

\* C4 (compatibility closure): in every schedule the solver returns, two
\* different split subjects taught in the same slot of a class form a sorted
\* pair that belongs to compatible_pairs.
C4_CompatibilityClosure ==
    ScheduleFound =>
        \A c \in class_set(data), sl \in WeekSlots :
            \A s1 \in TaughtSplit(c, sl), s2 \in TaughtSplit(c, sl) :
                s1 # s2 => SortedPair(<<s1, s2>>) \in data.compatible_pairs

\* a schedule for a class with two split subjects of different subgroups and
\* teachers and no entry in compatible_pairs, both placed
C4_Witness ==
    /\ ScheduleFound
    /\ data.compatible_pairs = {}
    /\ \E c \in class_set(data), s1 \in WeekSlots, s2 \in WeekSlots :
          \E k1 \in PlacedZ(c, s1), k2 \in PlacedZ(c, s2) :
              /\ k1[2] # k2[2]
              /\ k1[3] # k2[3]
              /\ data.subgroup_assigned_teacher[k1] # data.subgroup_assigned_teacher[k2]

\* C5 (teacher unavailability): in every schedule the solver returns, no
\* lesson of a teacher is placed on one of the teacher's days off or in one of
\* the teacher's forbidden slots.
C5_TeacherUnavailability ==
    ScheduleFound =>
        \A t \in teacher_set(data), sl \in WeekSlots :
            (\/ sl[1] \in Get(data.days_off, t, {})
             \/ sl \in SeqToSet(Get(data.teacher_forbidden_slots, t, <<>>)))
               => TaughtX(t, sl) = {} /\ TaughtZ(t, sl) = {}

\* a schedule with a one-hour lesson of a teacher who has a day off and a
\* lesson of a teacher who has a forbidden slot
C5_Witness ==
    /\ ScheduleFound
    /\ \E t \in DOMAIN data.days_off, sl \in WeekSlots :
          /\ data.days_off[t] # {}
          /\ \E k \in TaughtX(t, sl) : data.plan_hours[k] = 1
    /\ \E t \in DOMAIN data.teacher_forbidden_slots, sl \in WeekSlots :
          /\ data.teacher_forbidden_slots[t] # <<>>
          /\ TaughtZ(t, sl) # {}

\* C6 (class forbidden slots): in every schedule the solver returns, every
\* (class, day, period) of forbidden_slots has y = 0 and holds no lesson of
\* the class.
C6_ClassForbiddenSlots ==
    ScheduleFound =>
        \A f \in data.forbidden_slots :
            /\ yv(f[1], f[2], f[3]) \notin sched
            /\ PlacedX(f[1], <<f[2], f[3]>>) = {}
            /\ PlacedZ(f[1], <<f[2], f[3]>>) = {}

\* C7 (validation gates the solve): a run whose validator found a violation
\* ends with the aggregated ValueError, without a Solve call, statistics or
\* export; and a Solve call happens only after a validation that returned with
\* an empty report.
C7_ValidationGatesSolve ==
    /\ (pc # "start" /\ errors # <<>>) =>
          /\ pc = "raised"
          /\ raised = "ValueError"
          /\ solveCalls = 0
          /\ status = "none"
          /\ ~exported
    /\ solveCalls > 0 => outcome = "returned" /\ errors = <<>>

\* whatever way the validator ends after it found a violation, the run stops
\* there: the solver is not called and nothing is exported
NoSolveAfterViolation ==
    (pc # "start" /\ errors # <<>>) =>
        pc = "raised" /\ solveCalls = 0 /\ status = "none" /\ ~exported

\* the messages of every check of the validator, each check evaluated on its own
AllMessages(d) == LET secs == Sections(d) IN Flatten([i \in 1..Len(secs) |-> secs[i].msgs])

\* the validator ended with an aggregated report that holds a message with
\* this tag about this subject (a teacher or a class)
Reported(tag, who) ==
    /\ outcome = "ValueError"
    /\ \E i \in 1..Len(errors) : errors[i][1] = tag /\ errors[i][2] = who

\* C8 (the validator does not short-circuit): for every input, empty base
\* lists included, the validator ends with no error when no check is violated
\* and otherwise with the aggregated ValueError that holds the message of
\* every violated check; it never ends in another failure.
C8_NoShortCircuit ==
    pc # "start" =>
        IF AllMessages(data) = <<>>
        THEN outcome = "returned" /\ errors = <<>>
        ELSE outcome = "ValueError" /\ errors = AllMessages(data)

\* with a non-empty class list the validator runs every check and reports all
ReportCompleteWithClasses ==
    (pc # "start" /\ data.classes # <<>>) =>
        /\ errors = AllMessages(data)
        /\ outcome = IF errors = <<>> THEN "returned" ELSE "ValueError"

\* the positive plan hours assigned to teacher t
AssignedHours(t) ==
      SumOver({k \in DOMAIN data.plan_hours \cap DOMAIN data.assigned_teacher :
                  data.plan_hours[k] > 0 /\ data.assigned_teacher[k] = t},
              LAMBDA k : data.plan_hours[k])
    + SumOver({k \in DOMAIN data.subgroup_plan_hours \cap DOMAIN data.subgroup_assigned_teacher :
                  data.subgroup_plan_hours[k] > 0 /\ data.subgroup_assigned_teacher[k] = t},
              LAMBDA k : data.subgroup_plan_hours[k])

\* the slots of the week in which teacher t is available; a slot is a position
\* of the day list with a position of the period list
AvailableSlots(t) ==
    {sl \in (1..Len(data.days)) \X (1..Len(data.periods)) :
        /\ data.days[sl[1]] \notin Get(data.days_off, t, {})
        /\ <<data.days[sl[1]], data.periods[sl[2]]>>
              \notin SeqToSet(Get(data.teacher_forbidden_slots, t, <<>>))}

\* C9 (teacher capacity check): for every input the validator reports a
\* capacity violation for teacher t exactly when the positive plan hours
\* assigned to t exceed the number of slots outside days_off[t] and
\* teacher_forbidden_slots[t].
C9_TeacherCapacityExact ==
    pc # "start" =>
        \A t \in teacher_set(data) :
            Reported("teacher_capacity", t)
               <=> AssignedHours(t) > Cardinality(AvailableSlots(t))

\* the same equivalence for the runs in which the validator reaches its end
TeacherCapacityExactWhenCompleted ==
    (pc # "start" /\ outcome # "NameError") =>
        \A t \in teacher_set(data) :
            Reported("teacher_capacity", t)
               <=> AssignedHours(t) > Cardinality(AvailableSlots(t))

\* the lower bound on the slots class c needs: its non-split hours plus the
\* largest sum of split hours of one subgroup
RequiredSlots(c) ==
      SumOver({k \in DOMAIN data.plan_hours : k[1] = c}, LAMBDA k : data.plan_hours[k])
    + MaxOf({SumOver({k \in DOMAIN data.subgroup_plan_hours : k[1] = c /\ k[3] = g},
                     LAMBDA k : data.subgroup_plan_hours[k]) :
                g \in {k[3] : k \in {kk \in DOMAIN data.subgroup_plan_hours : kk[1] = c}}}, 0)

\* the weekly capacity of class c: per day the smaller of the daily cap of its
\* grade and the number of periods of the day that are not forbidden for c
WeeklyCapacity(c) ==
    SumSeq([i \in 1..Len(data.days) |->
        LET free == Cardinality({j \in 1..Len(data.periods) :
                        <<c, data.days[i], data.periods[j]>> \notin data.forbidden_slots})
        IN Min2(Get(data.grade_max_lessons_per_day, class_grade(data)[c], free), free)])

\* C10 (class capacity check): for every input the validator reports a
\* capacity violation for class c exactly when the required slots of c exceed
\* its weekly capacity.
C10_ClassCapacityExact ==
    pc # "start" =>
        \A c \in class_set(data) :
            Reported("class_capacity", c) <=> RequiredSlots(c) > WeeklyCapacity(c)

\* the same equivalence for the inputs whose forbidden_slots name periods of
\* the period list only
ClassCapacityExactOnKnownPeriods ==
    (pc # "start" /\ \A f \in data.forbidden_slots : f[3] \in period_set(data)) =>
        \A c \in class_set(data) :
            Reported("class_capacity", c) <=> RequiredSlots(c) > WeeklyCapacity(c)

\* hours of subject s of class c over the list of subgroup ids (0 when absent)
SyncHours(c, s) ==
    [i \in 1..Len(data.subgroup_ids) |->
        Get(data.subgroup_plan_hours, <<c, s, data.subgroup_ids[i]>>, 0)]

\* the hours of s in c differ between two subgroups
SyncHoursUnequal(c, s) ==
    \E i \in 1..Len(data.subgroup_ids), j \in 1..Len(data.subgroup_ids) :
        SyncHours(c, s)[i] # SyncHours(c, s)[j]

\* two subgroups of c with positive hours of s have the same teacher
SyncTeacherShared(c, s) ==
    \E i \in 1..Len(data.subgroup_ids), j \in 1..Len(data.subgroup_ids) :
        /\ i < j
        /\ SyncHours(c, s)[i] > 0 /\ SyncHours(c, s)[j] > 0
        /\ <<c, s, data.subgroup_ids[i]>> \in DOMAIN data.subgroup_assigned_teacher
        /\ <<c, s, data.subgroup_ids[j]>> \in DOMAIN data.subgroup_assigned_teacher
        /\ data.subgroup_assigned_teacher[<<c, s, data.subgroup_ids[i]>>]
              = data.subgroup_assigned_teacher[<<c, s, data.subgroup_ids[j]>>]

\* the report holds a must-sync message about subject s in class c
ReportedMustSync(c, s) ==
    /\ outcome = "ValueError"
    /\ \E i \in 1..Len(errors) :
          \/ /\ errors[i][1] \in {"must_sync_hours", "must_sync_same_teacher"}
             /\ errors[i][2] = c /\ errors[i][3] = s
          \/ /\ errors[i][1] = "must_sync_one_teacher"
             /\ errors[i][2] = s /\ errors[i][3] = c

\* C11 (must-sync validation): for every input the validator reports a
\* must-sync violation for a class and a must-sync subject with positive hours
\* whose subgroup hours are not all equal or of which two active subgroups
\* share a teacher, and reports none when the hours are equal and the teachers
\* of the active subgroups are pairwise different.
C11_MustSyncValidation ==
    pc # "start" =>
        \A s \in data.must_sync_split_subjects, c \in class_set(data) :
            /\ ((\E i \in 1..Len(data.subgroup_ids) : SyncHours(c, s)[i] > 0)
                  /\ (SyncHoursUnequal(c, s) \/ SyncTeacherShared(c, s)))
                 => ReportedMustSync(c, s)
            /\ (~SyncHoursUnequal(c, s) /\ ~SyncTeacherShared(c, s))
                 => ~ReportedMustSync(c, s)

\* the same two implications for the schools with at least two subgroups
MustSyncValidationWithTwoSubgroups ==
    (pc # "start" /\ Len(data.subgroup_ids) >= 2) =>
        \A s \in data.must_sync_split_subjects, c \in class_set(data) :
            /\ ((\E i \in 1..Len(data.subgroup_ids) : SyncHours(c, s)[i] > 0)
                  /\ (SyncHoursUnequal(c, s) \/ SyncTeacherShared(c, s)))
                 => ReportedMustSync(c, s)
            /\ (~SyncHoursUnequal(c, s) /\ ~SyncTeacherShared(c, s))
                 => ~ReportedMustSync(c, s)

\* C12 (distinct violation messages): for every input, the list of messages
\* one run of the validator collects holds no message twice.
C12_DistinctMessages ==
    pc # "start" =>
        \A i \in 1..Len(errors), j \in 1..Len(errors) : i # j => errors[i] # errors[j]

\* C13 (deterministic validation): a run of the validator on the same
\* unmodified input ends as the previous run did, with the same messages in
\* the same order, whatever the iteration order of the sets is.
C13_DeterministicValidation ==
    [][(pc = "start" /\ outcome # "none" /\ pc' # "start")
          => (outcome' = outcome /\ errors' = errors)]_vars

\* whatever the iteration order, two runs report the same set of messages
SameMessagesAnyOrder ==
    [][(pc = "start" /\ outcome # "none" /\ pc' # "start")
          => (outcome' = outcome /\ SeqToSet(errors') = SeqToSet(errors))]_vars


-----------------------------------------------------------------------------
(* The solving protocol                                                    *)

\* the constraints that bound an objective term from above between two solves;
\* the builder emits its last constraint before the only call of the solver
\* (line 1057), so none of the emitted constraints is of this kind
PrimaryBoundCons == {i \in 1..Len(cons) : cons[i].op = "ObjectiveLe"}

\* C14: a run that completes has invoked the solver exactly twice when
\* use_lexico is set and exactly once when it is not.
C14_LexicographicProtocol ==
    pc = "done" => solveCalls = (IF weights.use_lexico THEN 2 ELSE 1)

\* what the code does: one invocation, whatever use_lexico says
OneSolvePerRun == pc = "done" => solveCalls = 1

\* C15: in lexicographic mode the schedule that is returned comes from a second
\* solve of the model with the primary term bounded by its phase-1 value.
C15_LexicographicNonRegression ==
    (weights.use_lexico /\ ScheduleFound /\ pc = "done")
        => (solveCalls >= 2 /\ PrimaryBoundCons # {})


-----------------------------------------------------------------------------
(* Properties of the schedules under the scheduling rules                  *)

\* the items of the plan: keys of plan_hours and of subgroup_plan_hours
PlanItems == DOMAIN data.plan_hours \cup DOMAIN data.subgroup_plan_hours

RequiredHours(k) ==
    IF Len(k) = 2 THEN data.plan_hours[k] ELSE data.subgroup_plan_hours[k]

\* the periods of day in which the schedule has a lesson of item k
LessonPeriods(k, day) ==
    {p \in period_set(data) :
        IF Len(k) = 2 THEN xv(k[1], k[2], day, p) \in sched
        ELSE zv(k[1], k[2], k[3], day, p) \in sched}

\* C16 (daily repetition cap): in every schedule the solver returns, an item
\* of the plan with exactly 2 weekly hours whose subject is not in
\* paired_subjects has at most one lesson on each day.
C16_DailyRepetitionCap ==
    ScheduleFound =>
        \A k \in PlanItems :
            (RequiredHours(k) = 2 /\ k[2] \notin data.paired_subjects)
                => \A day \in day_set(data) : Cardinality(LessonPeriods(k, day)) <= 1

\* a schedule with a two-hour subgroup lesson outside paired_subjects, on two
\* days, while paired_subjects is in use
C16_Witness ==
    /\ ScheduleFound
    /\ data.paired_subjects # {}
    /\ \E k \in DOMAIN data.subgroup_plan_hours :
          /\ RequiredHours(k) = 2 /\ k[2] \notin data.paired_subjects
          /\ Cardinality({day \in day_set(data) : LessonPeriods(k, day) # {}}) = 2

\* the exemption: a schedule with both lessons of a two-hour subject of
\* paired_subjects on one day
PairedSubjectTwiceADay ==
    /\ ScheduleFound
    /\ \E k \in PlanItems, day \in day_set(data) :
          /\ RequiredHours(k) = 2 /\ k[2] \in data.paired_subjects
          /\ Cardinality(LessonPeriods(k, day)) = 2


\* class c has a lesson in slot sl
Occupied(c, sl) == PlacedX(c, sl) \cup PlacedZ(c, sl) # {}

\* sl is the final occupied slot of its day for class c
FinalOccupied(c, sl) ==
    /\ Occupied(c, sl)
    /\ \A q \in periods_after(data, sl[2]) : ~Occupied(c, <<sl[1], q>>)

\* class c has no lesson of a subject banned for its grade g in a final
\* occupied slot
NoBannedSubjectLast(c, g) ==
    \A s \in Get(data.subjects_not_last_lesson, g, {}), sl \in WeekSlots :
        FinalOccupied(c, sl)
            => \A k \in PlacedX(c, sl) \cup PlacedZ(c, sl) : k[2] # s

\* C17 (last-lesson ban): in every schedule the solver returns, for every
\* class of grade g and every subject of subjects_not_last_lesson[g], no lesson
\* of the subject is in the final occupied slot of a day of the class.
C17_LastLessonBan ==
    ScheduleFound =>
        \A i \in 1..Len(data.classes) :
            NoBannedSubjectLast(data.classes[i].name, data.classes[i].grade)

\* the same for the classes the rule is emitted for: grade above 4, in a run
\* whose goals switch the rule on
LastLessonBanWhereEmitted ==
    (ScheduleFound /\ \E i \in 1..Len(cons) : cons[i].op = "IfNone")
        => \A i \in 1..Len(data.classes) :
              data.classes[i].grade \notin {1, 2, 3, 4}
                  => NoBannedSubjectLast(data.classes[i].name, data.classes[i].grade)


\* the subgroups of class c with a lesson of subject s in slot sl
SubgroupsHaving(c, s, sl) ==
    {g \in SeqToSet(data.subgroup_ids) : zv(c, s, g, sl[1], sl[2]) \in sched}

HasSubjectOn(c, s, day) ==
    \E p \in period_set(data) :
        \E k \in PlacedX(c, <<day, p>>) \cup PlacedZ(c, <<day, p>>) : k[2] = s

EnglishLessons(c, sl) ==
    {k \in PlacedX(c, sl) \cup PlacedZ(c, sl) : k[2] = data.english_subject_name}

-----------------------------------------------------------------------------
(* Properties of the derived variables                                     *)

\* the lesson variables of class c in slot sl that have value 1
LessonVarsSet(c, sl) ==
    {v \in sched :
        \/ v[1] = "x" /\ v[2] = c /\ v[4] = sl[1] /\ v[5] = sl[2]
        \/ v[1] = "z" /\ v[2] = c /\ v[5] = sl[1] /\ v[6] = sl[2]}

\* C21 (occupancy derivation): in every assignment the solver returns, for
\* every class, day and period, y is 1 if and only if at least one lesson
\* variable x or z of the class in that slot is 1.
C21_OccupancyExact ==
    ScheduleFound =>
        \A c \in class_set(data), sl \in WeekSlots :
            (yv(c, sl[1], sl[2]) \in sched) <=> (LessonVarsSet(c, sl) # {})

\* an assignment with y = 1 in a slot whose only lesson is a subgroup lesson,
\* y = 0 in a free slot of the same class, and a class without lesson variables
C21_Witness ==
    /\ ScheduleFound
    /\ \E c \in class_set(data), sl \in WeekSlots, fr \in WeekSlots :
          /\ yv(c, sl[1], sl[2]) \in sched
          /\ PlacedX(c, sl) = {} /\ PlacedZ(c, sl) # {}
          /\ yv(c, fr[1], fr[2]) \notin sched
    /\ \E c \in class_set(data) : \A k \in PlanItems : k[1] # c


\* the items a lonely indicator exists for: every class (and subgroup) with
\* every paired subject
PairedItems ==
    UNION {IF s \in data.split_subjects
           THEN {<<c, s, g>> : c \in class_set(data), g \in SeqToSet(data.subgroup_ids)}
           ELSE {<<c, s>> : c \in class_set(data)} : s \in data.paired_subjects}

\* item has a lesson on day in the period at position idx of the period
\* list; a position outside the list has none
LessonAt(item, day, idx) ==
    /\ idx \in 1..Len(data.periods)
    /\ data.periods[idx] \in LessonPeriods(item, day)

OccupiedAt(kind, e, day, idx) ==
    LET sl == <<day, data.periods[idx]>>
    IN IF kind = "c" THEN PlacedX(e, sl) \cup PlacedZ(e, sl) # {}
       ELSE TaughtX(e, sl) \cup TaughtZ(e, sl) # {}

\* the positions of the periods in which e has a lesson on day
OccupiedPositions(kind, e, day) ==
    {i \in 1..Len(data.periods) : OccupiedAt(kind, e, day, i)}

\* the classes and the teachers, each with its kind
Entities == ({"c"} \X class_set(data)) \cup ({"t"} \X teacher_set(data))

-----------------------------------------------------------------------------
(* The outcome of a solve                                                  *)

UsableStatus == {"OPTIMAL", "FEASIBLE"}

\* C23 (result taxonomy): a timetable, statistics and export (for
\* ilp_minimize_ge: the objective and the values) are produced if and only if
\* the solver status is OPTIMAL or FEASIBLE, and the reported status is the
\* solver's status, so that INFEASIBLE and UNKNOWN are told apart.
C23_ResultTaxonomy ==
    /\ pc = "done" => (exported <=> status \in UsableStatus)
    /\ ilp.result # <<>>
          => /\ (ilp.result[1].x # <<>>) <=> (status \in UsableStatus)
             /\ (ilp.result[1].objective # <<>>) <=> (status \in UsableStatus)
             /\ ilp.result[1].status = status

\* what holds of the run of build_and_solve_with_or_tools, whose report names
\* the status with solver.StatusName(status)
RunResultTaxonomy ==
    pc = "done" => (exported <=> status \in UsableStatus)

\* what holds of ilp_minimize_ge: values and objective exactly for a usable
\* status, which is reported by its name
IlpUsableResults ==
    ilp.result # <<>>
        => /\ (ilp.result[1].x # <<>>) <=> (status \in UsableStatus)
           /\ (ilp.result[1].objective # <<>>) <=> (status \in UsableStatus)
           /\ status \in UsableStatus => ilp.result[1].status = status


-----------------------------------------------------------------------------
(* The effect of a run on its argument                                     *)

\* C24 (read-only data): no step of a run changes a field of the InputData
\* passed in; each table has after the call the entries it had before.
C24_InputDataReadOnly == [][data' = data]_vars

\* the validator leaves the data as it is
ValidationReadOnly == [][pc = "start" => data' = data]_vars

\* the only table the builder changes is grade_max_lessons_per_day
OnlyDailyCapsChange ==
    [][\A f \in DOMAIN data \ {"grade_max_lessons_per_day"} : data'[f] = data[f]]_vars


-----------------------------------------------------------------------------
(* The objective                                                           *)

\* the weighted sum of the user's preferences in assignment val: the entries
\* of class_slot_weight on the occupied slots, of teacher_slot_weight on the
\* lessons of the teacher in the slot, of class_subject_day_weight on the
\* lessons of the subject on the day
PreferenceSum(val) ==
      SumOver(DOMAIN data.class_slot_weight, LAMBDA k :
          IF yv(k[1], k[2], k[3]) \in val THEN data.class_slot_weight[k] ELSE 0)
    + SumOver(DOMAIN data.teacher_slot_weight, LAMBDA k :
          data.teacher_slot_weight[k]
             * Cardinality(teacher_lessons_in_slot(data, k[1], k[2], k[3]) \cap val))
    + SumOver(DOMAIN data.class_subject_day_weight, LAMBDA k :
          data.class_subject_day_weight[k]
             * Cardinality({v \in val : /\ v[1] \in {"x", "z"} /\ v[2] = k[1] /\ v[3] = k[2]
                                        /\ v[IF v[1] = "x" THEN 4 ELSE 5] = k[3]}))

\* C25 (preferences in the objective): of the schedule the solver returns
\* and any other assignment that satisfies the constraints and is equal to it
\* in all other terms, the one with the smaller weighted preference sum has the
\* smaller objective.
C25_PreferencesInObjective ==
    (ScheduleFound /\ pc = "done") =>
        \A other \in Solutions(cons) :
            (/\ objective_terms(data, weights, other) = objective_terms(data, weights, sched)
             /\ PreferenceSum(other) < PreferenceSum(sched))
                => objective(data, weights, other) < objective(data, weights, sched)

-----------------------------------------------------------------------------
(* The teacher-gap statistic                                               *)

\* _calculate_teacher_windows (lines 54-89): the periods of the lessons with
\* value 1 are collected per teacher and day; a day with at least two busy
\* periods adds last - first + 1 - len(busy)
calculate_teacher_windows(d, val) ==
    LET teacher_busy_periods(t, day) ==
              {v[5] : v \in {w \in val : /\ w[1] = "x" /\ w[4] = day
                                         /\ Get(d.assigned_teacher, <<w[2], w[3]>>, "") = t}}
         \cup {v[6] : v \in {w \in val : /\ w[1] = "z" /\ w[5] = day
                                         /\ Get(d.subgroup_assigned_teacher,
                                                <<w[2], w[3], w[4]>>, "") = t}}
    IN SumOver(teacher_set(d) \X D(d), LAMBDA k :
           LET busy == teacher_busy_periods(k[1], k[2])
           IN IF Cardinality(busy) >= 2
              THEN (MaxOf(busy, 0) - (CHOOSE m \in busy : \A v \in busy : m <= v) + 1)
                      - Cardinality(busy)
              ELSE 0)

\* sum(inside_teacher) - sum(teacher_busy) of the model (line 964 and lines
\* 566-575) in assignment val
ModelTeacherWindows(val) ==
      Cardinality({v \in val : v[1] = "inside" /\ v[2] = "t"})
    - Cardinality({v \in val : v[1] = "tbusy"})

\* C27 (teacher-gap statistic): for every schedule the solver returns, the
\* total_teacher_windows that _calculate_teacher_windows reports equals
\* sum(inside_teacher) minus sum(teacher_busy) of the model.
C27_TeacherWindowStatistic ==
    (ScheduleFound /\ pc = "done") =>
        calculate_teacher_windows(data, sched) = ModelTeacherWindows(sched)

\* the same equality for the runs whose period numbers are consecutive
TeacherWindowStatisticOnConsecutivePeriods ==
    (/\ ScheduleFound /\ pc = "done"
     /\ \A i \in 1..(Len(data.periods) - 1) : data.periods[i + 1] = data.periods[i] + 1)
        => calculate_teacher_windows(data, sched) = ModelTeacherWindows(sched)

\* a returned schedule with a free period between two lessons of a teacher
TeacherWindowOnConsecutivePeriods ==
    /\ ScheduleFound /\ pc = "done"
    /\ \A i \in 1..(Len(data.periods) - 1) : data.periods[i + 1] = data.periods[i] + 1
    /\ ModelTeacherWindows(sched) > 0

-----------------------------------------------------------------------------
(* Two subgroups with the same split subject                               *)

\* C28 (same-subject parallelism): in every schedule the solver returns, two
\* subgroups of one class have lessons of the same split subject s in the
\* same slot only if the pair (s, s) is a member of compatible_pairs.
C28_SameSubjectNeedsPair ==
    ScheduleFound =>
        \A c \in class_set(data), sl \in WeekSlots :
            \A k1 \in PlacedZ(c, sl), k2 \in PlacedZ(c, sl) :
                (k1[2] = k2[2] /\ k1[3] # k2[3])
                    => <<k1[2], k1[2]>> \in data.compatible_pairs

-----------------------------------------------------------------------------
(* Construction of the model on validated input                            *)

\* C30 (construction is total on validated input): after the validator has
\* returned without a violation, every key of assigned_teacher has x
\* variables and every key of subgroup_assigned_teacher has z variables, and
\* no lookup of the builder fails.
C30_ConstructionTotal ==
    (pc = "validated" /\ errors = <<>>) =>
        /\ x_teacher_keys(data) \subseteq x_keys(data)
        /\ z_teacher_keys(data) \subseteq z_keys(data)
        /\ ~BuildKeyError(data)

\* the half of it about the plan: after the validator has returned, every key
\* of plan_hours has x variables and every key of subgroup_plan_hours has z
\* variables
PlanKeysHaveVariables ==
    (pc = "validated" /\ errors = <<>>) =>
        /\ DOMAIN data.plan_hours \subseteq x_keys(data)
        /\ DOMAIN data.subgroup_plan_hours \subseteq z_keys(data)

\* a validated input with a plan
ValidatedPlan ==
    /\ pc = "validated" /\ errors = <<>>
    /\ DOMAIN data.plan_hours # {}
    /\ DOMAIN data.subgroup_plan_hours # {}

-----------------------------------------------------------------------------
(* The two compactness encodings                                           *)

\* the number of maximal runs of occupied periods of pattern y
Runs(y) == Cardinality({i \in 1..Len(y) : y[i] = 1 /\ (i = 1 \/ y[i - 1] = 0)})

\* the minimised sum of srun is the number of maximal runs, the sum of inside
\* is the length of the envelope
EncodingsCount ==
    \A y \in daily.feasible :
        /\ obj_runs(y) = Runs(y)
        /\ sum_inside(y) =
              LET on == {i \in 1..Len(y) : y[i] = 1}
              IN IF on = {} THEN 0
                 ELSE MaxOf(on, 0) - (CHOOSE m \in on : \A v \in on : m <= v) + 1

\* C26 as stated (equivalence of the encodings): over any set of feasible
\* daily occupancy patterns, the patterns that minimise the sum of srun are
\* exactly the patterns that minimise the sum of inside.
C26_EncodingsEquivalent ==
    daily.compared => daily.min_runs = daily.min_inside

\* the feasible patterns have the same number of lessons and one of them has
\* no free period between two lessons
SameLoadWithGapFree ==
    /\ \A y \in daily.feasible, o \in daily.feasible : SumSeq(y) = SumSeq(o)
    /\ \E y \in daily.feasible : Runs(y) <= 1

\* C26 (equivalence of the encodings on one daily load): over a set of
\* feasible daily patterns that all have the same number of lessons and of
\* which one has no free period between two lessons, the patterns that
\* minimise the sum of srun are exactly the patterns that minimise the sum of
\* inside.
C26_EquivalentOnSameLoad ==
    (daily.compared /\ SameLoadWithGapFree) => daily.min_runs = daily.min_inside

\* a compared set of patterns with two lessons each, one without and one
\* with a free period between them
C26_Witness ==
    /\ daily.compared /\ SameLoadWithGapFree
    /\ \E y \in daily.feasible : SumSeq(y) = 2 /\ Runs(y) = 2
    /\ daily.min_runs # daily.feasible

=============================================================================
